---- MODULE Spec2Model ----
(***************************************************************************)
(* Model of TxTracer-core: retrace / retraceBaseTx (runner) and the        *)
(* helpers of methods.ts they drive.  The chain-data providers, the        *)
(* content providers and the execution engine are the environment; the    *)
(* answers they give are part of the state (chosen in Init) or chosen     *)
(* when the call is made.                                                  *)
(***************************************************************************)
EXTENDS Integers, Sequences, FiniteSets, TLC

VARIABLES
    \* ---- the environment (never changed by the program)
    lookup,             \* what the chain-data lookups of the locator answer
    ledger,             \* the account's transactions, newest first
    target,             \* baseTx.lt: logical time of the transaction handle
    fullBlock,          \* BlockInfo.shards: per shard the (account, lt) summaries
    accountBefore,      \* ShardAccount.account answered by getBlockAccount
    initCode,           \* tx.tx.inMessage.init.code of the target (Absent: no init)
    needs,              \* fragment hashes the target references during execution
    callerLibs,         \* additionalLibs supplied by the caller of retrace
    replies,            \* what a content provider may answer to a request
    \* ---- the program
    pc,                 \* position in retrace / retraceBaseTx
    round,              \* number of retry rounds started so far
    additionalLibs,     \* additionalLibs of the current retrace call
    minLt,              \* result of computeMinLt
    ourTx,              \* first element of findAllTransactionsBetween's answer
    prevTxsInBlock,     \* the rest, reversed (oldest first)
    libs,               \* library table given to prepareEmulator (Absent: none)
    loadedCode,         \* second component of collectUsedLibraries' result
    initialShardAccountBase64,
    balance,            \* prevBalance argument of emulatePreviousTransactions
    shardAccountBase64, \* current snapshot inside emulatePreviousTransactions
    prevBalance,        \* current balance inside emulatePreviousTransactions
    idx,                \* number of loop iterations of emulatePreviousTransactions done
    calls,              \* every engine invocation made so far, in order
    fetches,            \* every content-provider request made so far, in order
    result,             \* TraceResult of the current round (Absent: none yet)
    results,            \* the TraceResult of every round that produced one
    roundLibs,          \* additionalLibs of every round, in order
    error               \* the Error thrown to the caller (Absent: none)

env == <<lookup, ledger, target, fullBlock, accountBefore, initCode, needs, callerLibs,
         replies>>

prog == <<pc, round, additionalLibs, minLt, ourTx, prevTxsInBlock, libs, loadedCode,
          initialShardAccountBase64, balance, shardAccountBase64, prevBalance, idx,
          calls, fetches, result, results, roundLibs, error>>

vars == <<env, prog>>

\* JavaScript's undefined / null.
Absent == [kind |-> "undefined"]

(***************************************************************************)
(* Bounds of the model.                                                    *)
(***************************************************************************)
\* Logical times of the small ledgers are drawn from 1..MaxLt.
MaxLt == 3
\* The target is one of the MaxTargetDepth newest transactions of the ledger.
MaxTargetDepth == 2
\* Fragment hashes are 1..NumHashes.
NumHashes == 2
\* Balances are 0..MaxCoins.
MaxCoins == 1
\* Transactions in a list given to emulatePreviousTransactions on its own.
MaxPrev == 2

\* limit: 1000 of the getTransactions request.
\* calculateSentTotal: the largest value a message declares, the longest list
\* of outgoing messages and the number of times the list is edited.
MaxValue == 2
MaxOutMessages == 3
MaxEdits == 2

TxLimit == 1000

Hashes == 1..NumHashes
\* Retry rounds the model follows; a call of retrace stays below it.
MaxRounds == NumHashes + 1
Accounts == {"A", "B"}
\* The account of the transaction handle (baseTx.address).
OurAccount == "A"

(***************************************************************************)
(* Sequences helpers.                                                      *)
(***************************************************************************)
Min(a, b) == IF a < b THEN a ELSE b

Take(s, n) == SubSeq(s, 1, Min(n, Len(s)))

\* Array.prototype.reverse
Reverse(s) == [i \in 1..Len(s) |-> s[Len(s) + 1 - i]]

\* Array.prototype.at with a negative index: the k-th element from the end.
AtFromEnd(s, k) == IF k <= Len(s) THEN s[Len(s) + 1 - k] ELSE Absent

\* The strictly decreasing sequence of the elements of a set of numbers.
RECURSIVE Descending(_)
Descending(S) ==
    IF S = {} THEN <<>>
    ELSE LET m == CHOOSE x \in S : \A y \in S : y <= x
         IN <<m>> \o Descending(S \ {m})

(***************************************************************************)
(* Chain Locator.                                                          *)
(***************************************************************************)
\* A transaction of the account: its logical time and the account's balance
\* after it (Absent: the account is gone after it).
Tx(lt, after) == [lt |-> lt, after |-> after]

\* The transactions of the small ledgers: the balance after is set by the lt.
LedgerTx(lt) == Tx(lt, [coins |-> lt % (MaxCoins + 1)])

\* Mutant: the account of an entry is not compared with the target account.
RECURSIVE MinLtOverEntries_AnyAccount(_, _, _)
MinLtOverEntries_AnyAccount(entries, addrStr, acc) ==
    IF entries = <<>> THEN acc
    ELSE LET txInBlock == Head(entries)
             next == IF txInBlock.lt < acc THEN txInBlock.lt ELSE acc
         IN MinLtOverEntries_AnyAccount(Tail(entries), addrStr, next)

\* computeMinLt: scan every shard summary, keep the smallest lt of the account.
RECURSIVE MinLtOverEntries(_, _, _)
MinLtOverEntries(entries, addrStr, acc) ==
    IF entries = <<>> THEN acc
    ELSE LET txInBlock == Head(entries)
             next == IF txInBlock.account = addrStr /\ txInBlock.lt < acc
                     THEN txInBlock.lt ELSE acc
         IN MinLtOverEntries(Tail(entries), addrStr, next)

RECURSIVE MinLtOverShards(_, _, _)
MinLtOverShards(shards, addrStr, acc) ==
    IF shards = <<>> THEN acc
    ELSE MinLtOverShards(Tail(shards), addrStr,
                         MinLtOverEntries(Head(shards), addrStr, acc))

computeMinLt(tx, address, block) == MinLtOverShards(block, address, tx.lt)

\* The provider's getTransactions: the account's transactions with
\* to_lt < lt <= opts.lt, newest first, at most opts.limit of them.
GetTransactions(txs, lt, toLt, limit) ==
    LET InRange(t) == t.lt <= lt /\ t.lt > toLt
    IN Take(SelectSeq(txs, InRange), limit)

findAllTransactionsBetween(txs, baseLt, min) ==
    GetTransactions(txs, baseLt, min - 1, TxLimit)

(***************************************************************************)
(* Cells and the Library Resolver.  A cell is its bit length, its first 8  *)
(* bits (tag) and the bits after them (payload); a 256-bit hash is an      *)
(* abstract word of Hashes.                                                *)
(***************************************************************************)
\* EXOTIC_LIBRARY_TAG
ExoticLibraryTag == 2
\* 256 + 8: the bit length of an exotic library cell.
LibraryCellBits == 264
LibraryCell(h) == [bits |-> LibraryCellBits, tag |-> ExoticLibraryTag, payload |-> h]
\* Inline code: the content of fragment h is OrdinaryCode(h); OrdinaryCode(0)
\* is code that is no fragment.
OrdinaryCode(h) == [bits |-> 256, tag |-> 255, payload |-> h]

\* The cells met on the stack: of the library bit length or not, with the
\* library tag or not.
Cells == [bits : {LibraryCellBits, 256}, tag : {ExoticLibraryTag, 255},
          payload : Hashes]

\* Buffer.toString("hex").toUpperCase() and BigInt(`0x${hex}`): the hex text
\* of a hash, and the number it denotes.
ToHexUpper(buf) == <<"hex", buf>>
BigIntOfHex(hex) == hex[2]

\* Dictionary<BigUint(256), Cell>
EmptyDict == [k \in {} |-> Absent]
DictSet(d, k, v) == [x \in (DOMAIN d) \cup {k} |-> IF x = k THEN v ELSE d[x]]

\* beginCell().storeDictDirect(libs).endCell()
DictCell(d) == [kind |-> "dict", dict |-> d]

\* What a content provider answers to one request for a hash: the content
\* of that fragment, some other content (the answer is decoded as it comes,
\* res.data.result.result[0].data or res.data.data.get_lib, and its hash is
\* not compared with the request), or an error.
Replies == {"content", "other", "error"}

\* Providers that answer a request with the content asked for or not at all.
FaithfulReplies == {"content", "error"}

ProviderAnswers == [toncenter : replies, dton : replies]

\* Cell.fromBase64 of a provider's reply to a request for hash.
CellOfReply(reply, hash) ==
    IF reply = "content" THEN OrdinaryCode(BigIntOfHex(hash)) ELSE OrdinaryCode(0)

\* A request to a provider and what it answered; the pacing delay.
Request(to, hash, reply) == [to |-> to, hash |-> hash, reply |-> reply]
Wait(hash) == [to |-> "wait", hash |-> hash, reply |-> "elapsed"]

\* Mutant: the secondary provider is asked without the delay before it.
getLibraryByHash_NoWait(hash, ans) ==
    IF ans.toncenter # "error"
    THEN [ok |-> TRUE, cell |-> CellOfReply(ans.toncenter, hash),
          requests |-> <<Request("toncenter", hash, ans.toncenter)>>]
    ELSE [ok |-> ans.dton # "error",
          cell |-> IF ans.dton # "error" THEN CellOfReply(ans.dton, hash) ELSE Absent,
          requests |-> <<Request("toncenter", hash, ans.toncenter),
                         Request("dton", hash, ans.dton)>>]

\* getLibraryByHash: toncenter first; when it throws, wait, then dton.
\* requests lists the provider requests (and the wait) in the order made.
getLibraryByHash(hash, ans) ==
    IF ans.toncenter # "error"
    THEN [ok |-> TRUE, cell |-> CellOfReply(ans.toncenter, hash),
          requests |-> <<Request("toncenter", hash, ans.toncenter)>>]
    ELSE IF ans.dton # "error"
    THEN [ok |-> TRUE, cell |-> CellOfReply(ans.dton, hash),
          requests |-> <<Request("toncenter", hash, ans.toncenter),
                         Wait(hash),
                         Request("dton", hash, ans.dton)>>]
    ELSE [ok |-> FALSE, cell |-> Absent,
          requests |-> <<Request("toncenter", hash, ans.toncenter),
                         Wait(hash),
                         Request("dton", hash, ans.dton)>>]

\* Mutant: the leading byte of the cell is not looked at.
tryLoadAsLibrary_AnyTag(libCell, ans) ==
    LET libHashHex == ToHexUpper(libCell.payload)
        got == getLibraryByHash(libHashHex, ans)
    IN IF libCell.bits # LibraryCellBits
       THEN [threw |-> FALSE, value |-> Absent, requests |-> <<>>]
       ELSE IF ~got.ok
       THEN [threw |-> TRUE, value |-> Absent, requests |-> got.requests]
       ELSE [threw |-> FALSE,
             value |-> [libHashHex |-> libHashHex, actualCode |-> got.cell],
             requests |-> got.requests]

\* Mutant: a fragment no provider delivers is reported as undefined.
tryLoadAsLibrary_UndefinedOnFailure(libCell, ans) ==
    LET libHashHex == ToHexUpper(libCell.payload)
        got == getLibraryByHash(libHashHex, ans)
    IN IF libCell.bits # LibraryCellBits
       THEN [threw |-> FALSE, value |-> Absent, requests |-> <<>>]
       ELSE IF libCell.tag # ExoticLibraryTag
       THEN [threw |-> FALSE, value |-> Absent, requests |-> <<>>]
       ELSE IF ~got.ok
       THEN [threw |-> FALSE, value |-> Absent, requests |-> got.requests]
       ELSE [threw |-> FALSE,
             value |-> [libHashHex |-> libHashHex, actualCode |-> got.cell],
             requests |-> got.requests]

\* tryLoadAsLibrary: undefined for a cell that is no library cell, the hash
\* and the fetched content otherwise; threw when every provider failed.
tryLoadAsLibrary(libCell, ans) ==
    LET libHashHex == ToHexUpper(libCell.payload)
        got == getLibraryByHash(libHashHex, ans)
    IN IF libCell.bits # LibraryCellBits
       THEN [threw |-> FALSE, value |-> Absent, requests |-> <<>>]
       ELSE IF libCell.tag # ExoticLibraryTag
       THEN [threw |-> FALSE, value |-> Absent, requests |-> <<>>]
       ELSE IF ~got.ok
       THEN [threw |-> TRUE, value |-> Absent, requests |-> got.requests]
       ELSE [threw |-> FALSE,
             value |-> [libHashHex |-> libHashHex, actualCode |-> got.cell],
             requests |-> got.requests]

\* Mutant: the bit length of the code cell is not looked at.
addMaybeExoticLibrary_AnyLength(code, d, ans) ==
    LET libHashHex == ToHexUpper(code.payload)
        got == getLibraryByHash(libHashHex, ans)
        notLibrary == [threw |-> FALSE, dict |-> d, actualCode |-> Absent,
                       requests |-> <<>>]
    IN IF code = Absent THEN notLibrary
       ELSE IF code.tag # ExoticLibraryTag THEN notLibrary
       ELSE IF ~got.ok
       THEN [threw |-> TRUE, dict |-> d, actualCode |-> Absent, requests |-> got.requests]
       ELSE [threw |-> FALSE, dict |-> DictSet(d, BigIntOfHex(libHashHex), got.cell),
             actualCode |-> got.cell, requests |-> got.requests]

\* collectUsedLibraries.addMaybeExoticLibrary, on the dictionary d.
addMaybeExoticLibrary(code, d, ans) ==
    LET libHashHex == ToHexUpper(code.payload)
        got == getLibraryByHash(libHashHex, ans)
        notLibrary == [threw |-> FALSE, dict |-> d, actualCode |-> Absent,
                       requests |-> <<>>]
    IN IF code = Absent THEN notLibrary
       ELSE IF code.bits # LibraryCellBits THEN notLibrary
       ELSE IF code.tag # ExoticLibraryTag THEN notLibrary
       ELSE IF ~got.ok
       THEN [threw |-> TRUE, dict |-> d, actualCode |-> Absent, requests |-> got.requests]
       ELSE [threw |-> FALSE, dict |-> DictSet(d, BigIntOfHex(libHashHex), got.cell),
             actualCode |-> got.cell, requests |-> got.requests]

\* Mutant: a supplied pair does not replace an entry the table already has.
RECURSIVE SetAll_KeepExisting(_, _)
SetAll_KeepExisting(d, pairs) ==
    IF pairs = <<>> THEN d
    ELSE SetAll_KeepExisting(IF Head(pairs)[1] \in DOMAIN d THEN d
                             ELSE DictSet(d, Head(pairs)[1], Head(pairs)[2]),
                             Tail(pairs))

\* for (const [hash, lib] of additionalLibs) libs.set(hash, lib)
RECURSIVE SetAll(_, _)
SetAll(d, pairs) ==
    IF pairs = <<>> THEN d
    ELSE SetAll(DictSet(d, Head(pairs)[1], Head(pairs)[2]), Tail(pairs))

\* init of the incoming message: NoInit when the message has none, else its code.
NoInit == [kind |-> "no init"]

\* collectUsedLibraries(account, tx, additionalLibs); ans1 and ans2 are the
\* providers' answers to the first and second fetch it may make.
collectUsedLibraries(account, init, addl, ans1, ans2) ==
    LET active == account # Absent /\ account.state = "active"
        first == IF active THEN addMaybeExoticLibrary(account.code, EmptyDict, ans1)
                 ELSE [threw |-> FALSE, dict |-> EmptyDict, actualCode |-> Absent,
                       requests |-> <<>>]
        \* loadedCellCode ??= ...: the init code is looked at only while
        \* loadedCellCode is still undefined
        scanInit == init # NoInit /\ first.actualCode = Absent
        second == IF scanInit THEN addMaybeExoticLibrary(init, first.dict, ans2)
                  ELSE [threw |-> FALSE, dict |-> first.dict,
                        actualCode |-> first.actualCode, requests |-> <<>>]
        table == SetAll(second.dict, addl)
    IN IF first.threw
       THEN [threw |-> TRUE, libs |-> Absent, loadedCode |-> Absent,
             requests |-> first.requests]
       ELSE IF second.threw
       THEN [threw |-> TRUE, libs |-> Absent, loadedCode |-> Absent,
             requests |-> first.requests \o second.requests]
       ELSE [threw |-> FALSE,
             libs |-> IF DOMAIN table = {} THEN Absent ELSE DictCell(table),
             loadedCode |-> second.actualCode,
             requests |-> first.requests \o second.requests]

(***************************************************************************)
(* Snapshots.  The base64 text of a shard account is the tuple of its      *)
(* account and its last-transaction lt.                                    *)
(***************************************************************************)
shardAccountToBase64(sa) == [base64 |-> <<sa.account, sa.lastTransactionLt>>]

\* loadShardAccount(Cell.fromBase64(text).asSlice())
loadShardAccount(text) ==
    [account |-> text.base64[1], lastTransactionLt |-> text.base64[2]]

\* shardAccount.account?.storage.balance.coins ?? 0n
CoinsOf(sa) == IF sa.account = Absent THEN 0 ELSE sa.account.coins

\* The accounts getBlockAccount may answer: none, uninitialised, or active
\* with inline code or with a library cell as code.
AccountsBefore ==
    {Absent}
    \cup [coins : 0..MaxCoins, state : {"uninit"}, code : {Absent}]
    \cup [coins : 0..MaxCoins, state : {"active"},
          code : {OrdinaryCode(0)} \cup {LibraryCell(h) : h \in Hashes}]

\* The account the engine leaves behind after transaction tx on `old`: the
\* engine is deterministic, and the balance it computes is the transaction's.
AccountAfter(old, tx) ==
    LET base == IF old = Absent
                THEN [coins |-> 0, state |-> "uninit", code |-> Absent] ELSE old
    IN IF tx.after = Absent THEN Absent ELSE [base EXCEPT !.coins = tx.after.coins]

(***************************************************************************)
(* The execution engine (executor.runTransaction behind emulate).  It is   *)
(* a black box: what it answers is chosen when it is called, except that   *)
(* it reports a failed library load of hash h only when the transaction    *)
(* references h and the library table does not supply h: it has no entry   *)
(* for h, or the content of the entry is not the fragment with hash h.     *)
(***************************************************************************)
\* Exit code of a failed cell load.
LibraryLoadExit == 9

\* Parsed entries of the VM log (logs.parse of ton-assembly).
VmStack(stack) == [kind |-> "VmStack", stack |-> stack]
VmLoc == [kind |-> "VmLoc"]
VmExecute(instr) == [kind |-> "VmExecute", instr |-> instr]
VmException(message) == [kind |-> "VmException", message |-> message]
VmExceptionHandler == [kind |-> "VmExceptionHandler"]
VmFinal == [kind |-> "VmFinalC5"]
CellElement(cell) == [kind |-> "Cell", boc |-> cell]
IntElement == [kind |-> "Integer"]

\* The log of the example in retrace: stack, code cell hash, execute CTOS,
\* handling exception, default exception handler, and the last entry.
LogOf(stackLine, execLine, excLine, handlerLine) ==
    <<VmExecute("PUSHREF"), stackLine, VmLoc, execLine, excLine, handlerLine, VmFinal>>

LibraryFailureLog(stack) ==
    LogOf(VmStack(stack), VmExecute("CTOS"),
          VmException("failed to load library cell"), VmExceptionHandler)

\* A stack with a library cell on top.
LibraryOnTop == <<IntElement, CellElement(LibraryCell(1))>>

\* Logs of a run that ended with exit code 9 for another reason, or whose
\* entries are not laid out as in the example.
OtherLogs ==
    {<<>>, <<VmFinal>>,
     LogOf(VmLoc, VmExecute("CTOS"),
           VmException("failed to load library cell"), VmExceptionHandler),
     LogOf(VmStack(LibraryOnTop), VmExecute("LDU"),
           VmException("failed to load library cell"), VmExceptionHandler),
     LogOf(VmStack(LibraryOnTop), VmLoc,
           VmException("failed to load library cell"), VmExceptionHandler),
     LogOf(VmStack(LibraryOnTop), VmExecute("CTOS"),
           VmException("cell underflow"), VmExceptionHandler),
     LogOf(VmStack(LibraryOnTop), VmExecute("CTOS"),
           VmExceptionHandler, VmExceptionHandler),
     LogOf(VmStack(LibraryOnTop), VmExecute("CTOS"),
           VmException("failed to load library cell"), VmLoc),
     \* the entries of the example without the last entry, so that every
     \* entry is one place nearer to the end
     SubSeq(LibraryFailureLog(LibraryOnTop), 1, 6),
     \* and with the stack dump right before the instruction entry
     <<VmStack(LibraryOnTop), VmExecute("CTOS"),
       VmException("failed to load library cell"), VmExceptionHandler, VmFinal>>}

\* Stacks whose top is no library cell.
OtherStacks ==
    {<<>>, <<IntElement>>, <<CellElement(LibraryCell(1)), IntElement>>}
    \cup {<<IntElement, CellElement(c)>> :
              c \in {x \in Cells : x.bits # LibraryCellBits \/ x.tag # ExoticLibraryTag}}

\* Compute phase and action phase of the emulated transaction.
ComputeSkipped == [type |-> "skipped"]
ComputePhaseVm(success, exitCode, vmSteps, gasUsed, gasFees) ==
    [type |-> "vm", success |-> success, exitCode |-> exitCode,
     vmSteps |-> vmSteps, gasUsed |-> gasUsed, gasFees |-> gasFees]
ComputeVm(exitCode) == ComputePhaseVm(exitCode = 0, exitCode, 1, 1, 1)
ActionPhase(resultCode) == [resultCode |-> resultCode]

\* What the engine may report for the target once every referenced
\* fragment is in the library table: any result but exit code 9 with the
\* entries of a failed library load and a library cell on top of the stack.
BaseOutcomes ==
    [computePhase : {ComputeSkipped, ComputeVm(0), ComputeVm(7)},
     actionPhase : {Absent, ActionPhase(0)},
     vmLog : {<<>>, LibraryFailureLog(LibraryOnTop)}]
    \cup [computePhase : {ComputeVm(LibraryLoadExit)},
          actionPhase : {Absent},
          vmLog : OtherLogs \cup {LibraryFailureLog(s) : s \in OtherStacks}]
    \cup [computePhase : {ComputeVm(0)},
          actionPhase : {ActionPhase(LibraryLoadExit)},
          vmLog : {<<>>, LibraryFailureLog(<<IntElement>>)}]

\* What it reports when fragment h is referenced and not in the table.
MissingFragmentOutcome(h) ==
    [computePhase |-> ComputeVm(LibraryLoadExit), actionPhase |-> Absent,
     vmLog |-> LibraryFailureLog(<<IntElement, CellElement(LibraryCell(h))>>)]

\* The keys of the library table the engine was given.
KeysOf(table) == IF table = Absent THEN {} ELSE DOMAIN table.dict

\* The fragments the table supplies: the engine looks a fragment up by its
\* hash and uses the entry only when the content has that hash.
Supplied(table) ==
    {k \in KeysOf(table) : table.dict[k].tag # ExoticLibraryTag /\ table.dict[k].payload = k}

TargetOutcomes(table) ==
    LET missing == needs \ Supplied(table)
    IN IF missing # {} THEN {MissingFragmentOutcome(h) : h \in missing}
       ELSE BaseOutcomes

\* stateUpdate.newHash: the hash of the account's state after a transaction.
StateHash(after) == <<"hash", after>>

\* The new state hash the engine may compute for tx: the one recorded on
\* chain, or the hash of a state the chain never had.
EmulatedHashes(tx) == {StateHash(tx.after), StateHash([coins |-> MaxCoins + 1])}

\* executor.runTransaction on a successful run: the new snapshot.
RunTransaction(tx, text) ==
    shardAccountToBase64([account |-> AccountAfter(loadShardAccount(text).account, tx),
                          lastTransactionLt |-> tx.lt])

(***************************************************************************)
(* State Replayer: emulatePreviousTransactions.                            *)
(***************************************************************************)
\* Mutant: the snapshot of the next iteration stays the one before this one.
emulatePreviousStep_StaleSnapshot(res) ==
    [prevBalance |-> CoinsOf(loadShardAccount(res.shardAccount)),
     shardAccountBase64 |-> shardAccountBase64]

\* Mutant: the balance is carried forward by the difference of the two
\* snapshots' balances instead of being read from the new snapshot.
emulatePreviousStep_Accumulate(res) ==
    [prevBalance |-> prevBalance + CoinsOf(loadShardAccount(res.shardAccount))
                     - CoinsOf(loadShardAccount(shardAccountBase64)),
     shardAccountBase64 |-> res.shardAccount]

\* One iteration of the loop after a successful engine answer `res`.
emulatePreviousStep(res) ==
    LET shardAccount == loadShardAccount(res.shardAccount)
    IN [prevBalance |-> CoinsOf(shardAccount), shardAccountBase64 |-> res.shardAccount]

\* Mutant: the returned balance is always read from the returned snapshot.
emulatePreviousReturn_Rederive(bal, text) ==
    [prevBalance |-> CoinsOf(loadShardAccount(text)), shardAccountBase64 |-> text]

\* lines 523-525 and 544: return {prevBalance, shardAccountBase64}
emulatePreviousReturn(bal, text) == [prevBalance |-> bal, shardAccountBase64 |-> text]

\* Mutant: the error message repeats logs where debugLogs belongs.
emulatePreviousError_NoDebugLogs(tx, res) ==
    [message |-> "Transaction failed for lt", lt |-> tx.lt,
     logs |-> res.logs, debugLogs |-> res.logs]

\* The Error of a non-success answer for tx.
emulatePreviousError(tx, res) ==
    [message |-> "Transaction failed for lt", lt |-> tx.lt,
     logs |-> res.logs, debugLogs |-> res.debugLogs]

\* The two log streams the engine returns for the transaction with this lt.
LogsOf(lt) == <<"logs", lt>>
DebugLogsOf(lt) == <<"debugLogs", lt>>

(***************************************************************************)
(* The messages of a transaction and calculateSentTotal.                   *)
(***************************************************************************)
InternalMessage(coins) ==
    [info |-> [type |-> "internal", value |-> [coins |-> coins]]]

\* An outgoing external message; the value is what it declares.
ExternalOutMessage(coins) ==
    [info |-> [type |-> "external-out", value |-> [coins |-> coins]]]

OutMessages == {InternalMessage(c) : c \in 0..MaxValue}
               \cup {ExternalOutMessage(c) : c \in 0..MaxValue}

ExternalOutMessages == {m \in OutMessages : m.info.type # "internal"}

RECURSIVE MessageLists(_)
MessageLists(n) ==
    IF n = 0 THEN {<<>>}
    ELSE MessageLists(n - 1)
         \cup {Append(l, m) : l \in {k \in MessageLists(n - 1) : Len(k) = n - 1},
                              m \in OutMessages}

\* Mutant: the type of the message is not looked at.
RECURSIVE SumOfValues_AllMessages(_, _)
SumOfValues_AllMessages(msgs, total) ==
    IF msgs = <<>> THEN total
    ELSE SumOfValues_AllMessages(Tail(msgs), total + Head(msgs).info.value.coins)

\* for (const msg of tx.outMessages.values())
\*     if (msg.info.type === "internal") total += msg.info.value.coins
RECURSIVE SumOfValues(_, _)
SumOfValues(msgs, total) ==
    IF msgs = <<>> THEN total
    ELSE SumOfValues(Tail(msgs),
                     IF Head(msgs).info.type = "internal"
                     THEN total + Head(msgs).info.value.coins
                     ELSE total)

calculateSentTotal(tx) == SumOfValues(tx.outMessages, 0)

\* The addresses a message may carry: an account address, an external
\* address, or none (null).
Address(account) == [kind |-> "Address", account |-> account]
ExternalAddress(value) == [kind |-> "ExternalAddress", value |-> value]
Null == [kind |-> "null"]

\* Address.isAddress(src)
IsAddress(a) == a.kind = "Address"

\* x ?? undefined
OrUndefined(x) == IF x = Null THEN Absent ELSE x

\* The incoming messages: internal with a source account and a value,
\* external with the source field the sender chose.
InternalIn(src, dest, coins) ==
    [info |-> [type |-> "internal", src |-> src, dest |-> dest,
               value |-> [coins |-> coins]]]

ExternalIn(src, dest) ==
    [info |-> [type |-> "external-in", src |-> src, dest |-> dest]]

(***************************************************************************)
(* Trace Assembler: computeFinalData.                                      *)
(***************************************************************************)
Skipped == [kind |-> "skipped"]

\* Mutant: the exit code is the compute phase's also when it is zero.
computeInfoOf_NoFallback(computePhase, actionPhase) ==
    IF computePhase.type = "skipped" THEN Skipped
    ELSE [kind |-> "computed", success |-> computePhase.success,
          exitCode |-> computePhase.exitCode,
          vmSteps |-> computePhase.vmSteps,
          gasUsed |-> computePhase.gasUsed,
          gasFees |-> computePhase.gasFees]

\* methods.ts lines 640-653: the summary of the compute phase.
computeInfoOf(computePhase, actionPhase) ==
    IF computePhase.type = "skipped" THEN Skipped
    ELSE [kind |-> "computed", success |-> computePhase.success,
          exitCode |-> IF computePhase.exitCode = 0
                       THEN (IF actionPhase = Absent THEN 0 ELSE actionPhase.resultCode)
                       ELSE computePhase.exitCode,
          vmSteps |-> computePhase.vmSteps,
          gasUsed |-> computePhase.gasUsed,
          gasFees |-> computePhase.gasFees]

\* What computeFinalData throws.
FinalDataError(message) == [threw |-> TRUE, error |-> [message |-> message]]

\* computeFinalData(res, balanceBefore): res.transaction is the emulated
\* transaction, res.shardAccount the snapshot after it.
computeFinalData(res, balanceBefore) ==
    LET shardAccount == loadShardAccount(res.shardAccount)
        endBalance == CoinsOf(shardAccount)
        emulatedTx == res.transaction
        src == OrUndefined(emulatedTx.inMessage.info.src)
        dest == emulatedTx.inMessage.info.dest
        amount == IF emulatedTx.inMessage.info.type = "internal"
                  THEN emulatedTx.inMessage.info.value.coins
                  ELSE Absent
    IN IF emulatedTx.inMessage = Absent
       THEN FinalDataError("No in_message was found in result tx")
       ELSE IF src # Absent /\ ~IsAddress(src)
       THEN FinalDataError("Invalid src address")
       ELSE IF ~IsAddress(dest)
       THEN FinalDataError("Invalid dest address")
       ELSE IF emulatedTx.description.type # "generic"
       THEN FinalDataError("TxTracer doesn't support non-generic transaction")
       ELSE [threw |-> FALSE,
             sender |-> src,
             contract |-> dest,
             money |-> [balanceBefore |-> balanceBefore,
                        sentTotal |-> calculateSentTotal(emulatedTx),
                        totalFees |-> emulatedTx.totalFees.coins,
                        balanceAfter |-> endBalance],
             amount |-> amount,
             computeInfo |-> computeInfoOf(emulatedTx.description.computePhase,
                                           emulatedTx.description.actionPhase)]

\* The transaction record in the engine's result for outcome o: the target's
\* incoming message is an internal message of the other account.
EmulatedTransaction(o) ==
    [inMessage |-> InternalIn(Address("B"), Address(OurAccount), 0),
     outMessages |-> <<>>,
     totalFees |-> [coins |-> 0],
     description |-> [type |-> "generic", computePhase |-> o.computePhase,
                      actionPhase |-> o.actionPhase]]

\* retraceBaseTx, lines 176-181: the code cell of the account or of the init.
codeCellOf(account, init) ==
    IF account # Absent /\ account.state = "active" THEN account.code
    ELSE IF init = NoInit THEN Absent ELSE init

\* Mutant: the report's code cell is the account's code cell as stored.
traceResult_StoredCodeOnly(res, balanceBefore, loaded, codeCell, tx) ==
    LET final == computeFinalData(res, balanceBefore)
    IN [stateUpdateHashOk |-> res.newHash = StateHash(tx.after),
        codeCell |-> codeCell,
        originalCodeCell |-> codeCell,
        inMsg |-> [sender |-> final.sender, contract |-> final.contract,
                   amount |-> final.amount],
        money |-> final.money,
        emulatedTx |-> [lt |-> tx.lt, computeInfo |-> final.computeInfo,
                        vmLogs |-> res.vmLog]]

\* Mutant: the flag is set without comparing the hashes.
traceResult_HashNotCompared(res, balanceBefore, loaded, codeCell, tx) ==
    LET final == computeFinalData(res, balanceBefore)
    IN [stateUpdateHashOk |-> TRUE,
        codeCell |-> IF loaded = Absent THEN codeCell ELSE loaded,
        originalCodeCell |-> codeCell,
        inMsg |-> [sender |-> final.sender, contract |-> final.contract,
                   amount |-> final.amount],
        money |-> final.money,
        emulatedTx |-> [lt |-> tx.lt, computeInfo |-> final.computeInfo,
                        vmLogs |-> res.vmLog]]

\* The TraceResult retraceBaseTx returns.
traceResult(res, balanceBefore, loaded, codeCell, tx) ==
    LET final == computeFinalData(res, balanceBefore)
    IN [stateUpdateHashOk |-> res.newHash = StateHash(tx.after),
        codeCell |-> IF loaded = Absent THEN codeCell ELSE loaded,
        originalCodeCell |-> codeCell,
        inMsg |-> [sender |-> final.sender, contract |-> final.contract,
                   amount |-> final.amount],
        money |-> final.money,
        emulatedTx |-> [lt |-> tx.lt, computeInfo |-> final.computeInfo,
                        vmLogs |-> res.vmLog]]

(***************************************************************************)
(* Retry Controller: what retrace reads in the result.                     *)
(***************************************************************************)
\* Mutant: the instruction of the entry before the exception is not looked at.
IsLibraryLoadFailure_AnyInstruction(res) ==
    LET lines == res.emulatedTx.vmLogs
        exceptionHandlerLine == AtFromEnd(lines, 2)
        exceptionLine == AtFromEnd(lines, 3)
        ctosLine == AtFromEnd(lines, 4)
        stackLine == AtFromEnd(lines, 6)
    IN /\ res.emulatedTx.computeInfo # Skipped
       /\ res.emulatedTx.computeInfo.exitCode = LibraryLoadExit
       /\ exceptionHandlerLine.kind = "VmExceptionHandler"
       /\ exceptionLine.kind = "VmException"
       /\ exceptionLine.message = "failed to load library cell"
       /\ ctosLine.kind = "VmExecute"
       /\ stackLine.kind = "VmStack"

\* Mutant: the message of the exception entry is not looked at.
IsLibraryLoadFailure_AnyException(res) ==
    LET lines == res.emulatedTx.vmLogs
    IN /\ res.emulatedTx.computeInfo # Skipped
       /\ res.emulatedTx.computeInfo.exitCode = LibraryLoadExit
       /\ AtFromEnd(lines, 2).kind = "VmExceptionHandler"
       /\ AtFromEnd(lines, 3).kind = "VmException"
       /\ AtFromEnd(lines, 4).kind = "VmExecute"
       /\ AtFromEnd(lines, 4).instr = "CTOS"
       /\ AtFromEnd(lines, 6).kind = "VmStack"

\* lines 76-101: exit code 9 and the entries of a failed library load.
IsLibraryLoadFailure(res) ==
    LET lines == res.emulatedTx.vmLogs
        exceptionHandlerLine == AtFromEnd(lines, 2)
        exceptionLine == AtFromEnd(lines, 3)
        ctosLine == AtFromEnd(lines, 4)
        stackLine == AtFromEnd(lines, 6)
    IN /\ res.emulatedTx.computeInfo # Skipped
       /\ res.emulatedTx.computeInfo.exitCode = LibraryLoadExit
       /\ exceptionHandlerLine.kind = "VmExceptionHandler"
       /\ exceptionLine.kind = "VmException"
       /\ exceptionLine.message = "failed to load library cell"
       /\ ctosLine.kind = "VmExecute"
       /\ ctosLine.instr = "CTOS"
       /\ stackLine.kind = "VmStack"

\* line 104: stackLine.stack.at(-1)
TopElement(res) == AtFromEnd(AtFromEnd(res.emulatedTx.vmLogs, 6).stack, 1)

\* Mutant: the new entry replaces the list instead of being appended to it.
nextAdditionalLibs_OnlyNew(libList, libraryResult) ==
    <<<<BigIntOfHex(libraryResult.libHashHex), libraryResult.actualCode>>>>

\* Mutant: the key of the new entry is not the hash read from the cell.
nextAdditionalLibs_WrongKey(libList, libraryResult) ==
    Append(libList, <<(BigIntOfHex(libraryResult.libHashHex) % NumHashes) + 1,
                      libraryResult.actualCode>>)

\* lines 113-115: the list of the next round.
nextAdditionalLibs(libList, libraryResult) ==
    Append(libList, <<BigIntOfHex(libraryResult.libHashHex), libraryResult.actualCode>>)

(***************************************************************************)
(* The environments.                                                       *)
(***************************************************************************)
Lookups == {"ok", "no base tx", "no raw tx", "no shard block", "root_hash mismatch"}

\* The ledger whose transactions have the logical times 1..n.
LedgerUpTo(n) == [i \in 1..n |-> LedgerTx(n + 1 - i)]

\* A ledger with the logical times of S.
LedgerOf(S) == LET d == Descending(S) IN [i \in 1..Len(d) |-> LedgerTx(d[i])]

\* A master block whose only shard summary lists the account's transactions
\* with from <= lt <= to, and one transaction of another account.
BlockOf(txs, from, to) ==
    LET InBlock(t) == from <= t.lt /\ t.lt <= to
        mine == SelectSeq(txs, InBlock)
    IN <<[i \in 1..Len(mine) |-> [account |-> OurAccount, lt |-> mine[i].lt]]
         \o <<[account |-> "B", lt |-> 1]>>>>

\* Shard summaries of at most two entries in all.
SummaryEntries == [account : Accounts, lt : 1..MaxLt]
Blocks ==
    {<<>>, <<<<>>, <<>>>>}
    \cup {<<<<e>>>> : e \in SummaryEntries}
    \cup {<<<<e1, e2>>>> : e1 \in SummaryEntries, e2 \in SummaryEntries}
    \cup {<<<<e1>>, <<e2>>>> : e1 \in SummaryEntries, e2 \in SummaryEntries}

\* additionalLibs a caller may supply.
CallerLibs == {<<>>, <<<<1, OrdinaryCode(1)>>>>}

InitCodes == {NoInit, OrdinaryCode(0), LibraryCell(NumHashes)}

InitProgram(start) ==
    /\ pc = start
    /\ round = 0
    /\ additionalLibs = callerLibs
    /\ minLt = 0
    /\ ourTx = Absent
    /\ prevTxsInBlock = <<>>
    /\ libs = Absent
    /\ loadedCode = Absent
    /\ initialShardAccountBase64 = Absent
    /\ balance = 0
    /\ shardAccountBase64 = Absent
    /\ prevBalance = 0
    /\ idx = 0
    /\ calls = <<>>
    /\ fetches = <<>>
    /\ result = Absent
    /\ results = <<>>
    /\ roundLibs = <<>>
    /\ error = Absent

\* retrace(testnet, txLink, additionalLibs) is called.  The ledgers and
\* blocks vary for a transaction without fragments; the account's code, the
\* fragments and the caller's list vary for the target that ends a block of
\* MaxLt transactions.
Init ==
    /\ lookup \in Lookups
    /\ \E n \in 1..MaxLt :
          /\ ledger = LedgerUpTo(n)
          /\ target \in 1..n
          /\ \E from \in 1..target : fullBlock = BlockOf(ledger, from, n)
    /\ accountBefore \in {a \in AccountsBefore : a = Absent \/ a.coins = MaxCoins}
    /\ initCode \in InitCodes
    /\ needs \in SUBSET Hashes
    /\ callerLibs \in CallerLibs
    /\ replies = FaithfulReplies
    /\ \/ /\ target = MaxLt
          /\ fullBlock = BlockOf(ledger, 1, MaxLt)
       \/ /\ accountBefore \in {a \in AccountsBefore : a = Absent \/ a.code = Absent}
          /\ initCode = NoInit
          /\ needs = {}
          /\ callerLibs = <<>>
    \* a failed lookup ends the call before any of the rest is read
    /\ lookup # "ok" =>
          /\ Len(ledger) = 1 /\ accountBefore = Absent /\ initCode = NoInit
          /\ needs = {} /\ callerLibs = <<>>
    /\ InitProgram("retrace")

(***************************************************************************)
(* The steps of retrace and retraceBaseTx, one per awaited call.           *)
(***************************************************************************)
Throw(e) ==
    /\ pc' = "failed"
    /\ error' = e

\* retrace, lines 62-65: findBaseTxByHash.
FindBaseTxByHash ==
    /\ pc = "retrace"
    /\ roundLibs' = Append(roundLibs, additionalLibs)
    /\ IF lookup = "no base tx"
       THEN Throw([message |-> "Cannot find transaction info"])
       ELSE pc' = "findRawTxByHash" /\ UNCHANGED error
    /\ UNCHANGED <<env, round, additionalLibs, minLt, ourTx, prevTxsInBlock, libs,
                   loadedCode, initialShardAccountBase64, balance, shardAccountBase64,
                   prevBalance, idx, calls, fetches, result, results>>

\* retraceBaseTx, lines 135-140: findRawTxByHash.
FindRawTxByHash ==
    /\ pc = "findRawTxByHash"
    /\ IF lookup = "no raw tx"
       THEN Throw([message |-> "Cannot find transaction info"])
       ELSE pc' = "findShardBlockForTx" /\ UNCHANGED error
    /\ UNCHANGED <<env, round, additionalLibs, minLt, ourTx, prevTxsInBlock, libs,
                   loadedCode, initialShardAccountBase64, balance, shardAccountBase64,
                   prevBalance, idx, calls, fetches, result, results, roundLibs>>

\* Mutant: the root hash of the block is not compared with the transaction's.
FindShardBlockForTx_RootHashNotCompared ==
    /\ pc = "findShardBlockForTx"
    /\ IF lookup = "no shard block"
       THEN Throw([message |-> "Cannot find shard block for transaction"])
       ELSE pc' = "findFullBlockForSeqno" /\ UNCHANGED error
    /\ UNCHANGED <<env, round, additionalLibs, minLt, ourTx, prevTxsInBlock, libs,
                   loadedCode, initialShardAccountBase64, balance, shardAccountBase64,
                   prevBalance, idx, calls, fetches, result, results, roundLibs>>

\* lines 141-151: findShardBlockForTx and the root_hash check.
FindShardBlockForTx ==
    /\ pc = "findShardBlockForTx"
    /\ IF lookup = "no shard block"
       THEN Throw([message |-> "Cannot find shard block for transaction"])
       ELSE IF lookup = "root_hash mismatch"
       THEN Throw([message |-> "root_hash mismatch in mc_seqno getter"])
       ELSE pc' = "findFullBlockForSeqno" /\ UNCHANGED error
    /\ UNCHANGED <<env, round, additionalLibs, minLt, ourTx, prevTxsInBlock, libs,
                   loadedCode, initialShardAccountBase64, balance, shardAccountBase64,
                   prevBalance, idx, calls, fetches, result, results, roundLibs>>

\* lines 153-160: findFullBlockForSeqno, then computeMinLt.
FindFullBlockForSeqno ==
    /\ pc = "findFullBlockForSeqno"
    /\ minLt' = computeMinLt([lt |-> target], OurAccount, fullBlock)
    /\ pc' = "findAllTransactionsBetween"
    /\ UNCHANGED <<env, round, additionalLibs, ourTx, prevTxsInBlock, libs,
                   loadedCode, initialShardAccountBase64, balance, shardAccountBase64,
                   prevBalance, idx, calls, fetches, result, results, roundLibs, error>>

\* lines 163-164: const [ourTx, ...prevTxsInBlock] = ...; prevTxsInBlock.reverse()
FindAllTransactionsBetween ==
    /\ pc = "findAllTransactionsBetween"
    /\ LET all == findAllTransactionsBetween(ledger, target, minLt)
       IN /\ ourTx' = IF all = <<>> THEN Absent ELSE Head(all)
          /\ prevTxsInBlock' = IF all = <<>> THEN <<>> ELSE Reverse(Tail(all))
    /\ pc' = "getBlockConfig"
    /\ UNCHANGED <<env, round, additionalLibs, minLt, libs,
                   loadedCode, initialShardAccountBase64, balance, shardAccountBase64,
                   prevBalance, idx, calls, fetches, result, results, roundLibs, error>>

\* Mutant: the configuration and the account snapshot are requested at once.
GetBlockConfig_WithAccount ==
    /\ pc = "getBlockConfig"
    /\ pc' = "collectUsedLibraries"
    /\ UNCHANGED <<env, round, additionalLibs, minLt, ourTx, prevTxsInBlock, libs,
                   loadedCode, initialShardAccountBase64, balance, shardAccountBase64,
                   prevBalance, idx, calls, fetches, result, results, roundLibs, error>>

\* line 167: getBlockConfig.
GetBlockConfig ==
    /\ pc = "getBlockConfig"
    /\ pc' = "getBlockAccount"
    /\ UNCHANGED <<env, round, additionalLibs, minLt, ourTx, prevTxsInBlock, libs,
                   loadedCode, initialShardAccountBase64, balance, shardAccountBase64,
                   prevBalance, idx, calls, fetches, result, results, roundLibs, error>>

\* line 168: getBlockAccount.
GetBlockAccount ==
    /\ pc = "getBlockAccount"
    /\ pc' = "collectUsedLibraries"
    /\ UNCHANGED <<env, round, additionalLibs, minLt, ourTx, prevTxsInBlock, libs,
                   loadedCode, initialShardAccountBase64, balance, shardAccountBase64,
                   prevBalance, idx, calls, fetches, result, results, roundLibs, error>>

\* lines 169-200: collectUsedLibraries, prepareEmulator, and the call of
\* emulatePreviousTransactions with the snapshot taken before the block.
CollectUsedLibraries ==
    /\ pc = "collectUsedLibraries"
    /\ \E ans1 \in ProviderAnswers, ans2 \in ProviderAnswers :
          LET r == collectUsedLibraries(accountBefore, initCode, additionalLibs, ans1, ans2)
              \* shardAccountBeforeTx.lastTransactionLt = 0n
              text == shardAccountToBase64([account |-> accountBefore,
                                            lastTransactionLt |-> 0])
              coins == CoinsOf([account |-> accountBefore])
          IN /\ fetches' = fetches \o r.requests
             /\ IF r.threw
                THEN /\ Throw([message |-> "Get library"])
                     /\ UNCHANGED <<libs, loadedCode, initialShardAccountBase64, balance,
                                    shardAccountBase64, prevBalance, idx>>
                ELSE /\ libs' = r.libs
                     /\ loadedCode' = r.loadedCode
                     /\ initialShardAccountBase64' = text
                     /\ balance' = coins
                     /\ shardAccountBase64' = text
                     /\ prevBalance' = coins
                     /\ idx' = 0
                     /\ pc' = "emulatePreviousTransactions"
                     /\ UNCHANGED error
    /\ UNCHANGED <<env, round, additionalLibs, minLt, ourTx, prevTxsInBlock,
                   calls, result, results, roundLibs>>

\* An engine invocation as the program makes it.
Call(tx, text) == [tx |-> tx, shardAccount |-> text, libs |-> libs, round |-> round]

\* emulatePreviousTransactions, lines 527-542: one iteration of the loop.
EmulatePreviousStep ==
    /\ pc = "emulatePreviousTransactions"
    /\ idx < Len(prevTxsInBlock)
    /\ LET tx == prevTxsInBlock[idx + 1]
       IN \E success \in BOOLEAN :
             LET res == [success |-> success,
                         shardAccount |-> RunTransaction(tx, shardAccountBase64),
                         logs |-> LogsOf(tx.lt), debugLogs |-> DebugLogsOf(tx.lt)]
                 next == emulatePreviousStep(res)
             IN /\ calls' = Append(calls, [call |-> Call(tx, shardAccountBase64),
                                          returned |-> IF success THEN res.shardAccount
                                                       ELSE Absent])
                /\ IF ~res.success
                   THEN /\ Throw(emulatePreviousError(tx, res))
                        /\ UNCHANGED <<shardAccountBase64, prevBalance, idx>>
                   ELSE /\ shardAccountBase64' = next.shardAccountBase64
                        /\ prevBalance' = next.prevBalance
                        /\ idx' = idx + 1
                        /\ UNCHANGED <<pc, error>>
    /\ UNCHANGED <<env, round, additionalLibs, minLt, ourTx, prevTxsInBlock, libs,
                   loadedCode, initialShardAccountBase64, balance,
                   fetches, result, results, roundLibs>>

\* lines 523-525 and 544: return {prevBalance, shardAccountBase64}.
EmulatePreviousReturn ==
    /\ pc = "emulatePreviousTransactions"
    /\ idx = Len(prevTxsInBlock)
    /\ LET ret == emulatePreviousReturn(prevBalance, shardAccountBase64)
       IN /\ prevBalance' = ret.prevBalance
          /\ shardAccountBase64' = ret.shardAccountBase64
    /\ pc' = "emulateTarget"
    /\ UNCHANGED <<env, round, additionalLibs, minLt, ourTx, prevTxsInBlock, libs,
                   loadedCode, initialShardAccountBase64, balance,
                   idx, calls, fetches, result, results, roundLibs, error>>

\* retraceBaseTx, lines 203-243: emulate the target and assemble the result.
EmulateTarget ==
    /\ pc = "emulateTarget"
    /\ IF ourTx = Absent
       THEN \* emulate reads tx.inMessage of undefined
            /\ Throw([message |-> "TypeError"])
            /\ UNCHANGED <<calls, result, results>>
       ELSE \E success \in BOOLEAN, newHash \in EmulatedHashes(ourTx) :
               /\ calls' = Append(calls,
                      [call |-> Call(ourTx, shardAccountBase64),
                       returned |-> IF success
                                    THEN RunTransaction(ourTx, shardAccountBase64)
                                    ELSE Absent,
                       newHash |-> IF success THEN newHash ELSE StateHash(Absent)])
               /\ IF ~success
                  THEN /\ Throw([message |-> "Transaction failed"])
                       /\ UNCHANGED <<result, results>>
                  ELSE \E o \in TargetOutcomes(libs) :
                          LET res == [shardAccount |-> RunTransaction(ourTx, shardAccountBase64),
                                      transaction |-> EmulatedTransaction(o),
                                      vmLog |-> o.vmLog,
                                      newHash |-> newHash]
                              tr == traceResult(res, prevBalance, loadedCode,
                                                codeCellOf(accountBefore, initCode), ourTx)
                              final == computeFinalData(res, prevBalance)
                          IN IF final.threw
                             THEN /\ Throw(final.error)
                                  /\ UNCHANGED <<result, results>>
                             ELSE /\ result' = tr
                                  /\ results' = Append(results, tr)
                                  /\ pc' = "diagnose"
                                  /\ UNCHANGED error
    /\ UNCHANGED <<env, round, additionalLibs, minLt, ourTx, prevTxsInBlock, libs,
                   loadedCode, initialShardAccountBase64, balance, shardAccountBase64,
                   prevBalance, idx, fetches, roundLibs>>

\* Mutant: the retry adds the fetched library to the table and emulates the
\* target again from the snapshot the replay of this round ended with.
Diagnose_ResumeAtTarget ==
    /\ pc = "diagnose"
    /\ IF IsLibraryLoadFailure(result) /\ TopElement(result).kind = "Cell"
       THEN \E ans \in ProviderAnswers :
               LET libraryResult == tryLoadAsLibrary(TopElement(result).boc, ans)
                   nextLibs == nextAdditionalLibs(additionalLibs, libraryResult.value)
               IN /\ fetches' = fetches \o libraryResult.requests
                  /\ IF libraryResult.threw
                     THEN /\ Throw([message |-> "Get library"])
                          /\ UNCHANGED <<round, additionalLibs, libs, roundLibs>>
                     ELSE IF libraryResult.value = Absent
                     THEN /\ pc' = "done"
                          /\ UNCHANGED <<round, additionalLibs, libs, roundLibs, error>>
                     ELSE /\ round < MaxRounds
                          /\ additionalLibs' = nextLibs
                          /\ roundLibs' = Append(roundLibs, nextLibs)
                          /\ libs' = DictCell(SetAll(IF libs = Absent THEN EmptyDict
                                                     ELSE libs.dict, nextLibs))
                          /\ round' = round + 1
                          /\ pc' = "emulateTarget"
                          /\ UNCHANGED error
       ELSE /\ pc' = "done"
            /\ UNCHANGED <<round, additionalLibs, libs, roundLibs, fetches, error>>
    /\ UNCHANGED <<env, minLt, ourTx, prevTxsInBlock,
                   loadedCode, initialShardAccountBase64, balance, shardAccountBase64,
                   prevBalance, idx, calls, result, results>>

\* retrace, lines 67-120: return the result, or fetch the missing library
\* and call retrace again with it.
Diagnose ==
    /\ pc = "diagnose"
    /\ IF IsLibraryLoadFailure(result) /\ TopElement(result).kind = "Cell"
       THEN \E ans \in ProviderAnswers :
               LET libraryResult == tryLoadAsLibrary(TopElement(result).boc, ans)
               IN /\ fetches' = fetches \o libraryResult.requests
                  /\ IF libraryResult.threw
                     THEN /\ Throw([message |-> "Get library"])
                          /\ UNCHANGED <<round, additionalLibs>>
                     ELSE IF libraryResult.value = Absent
                     THEN /\ pc' = "done"
                          /\ UNCHANGED <<round, additionalLibs, error>>
                     ELSE /\ round < MaxRounds
                          /\ additionalLibs' =
                                 nextAdditionalLibs(additionalLibs, libraryResult.value)
                          /\ round' = round + 1
                          /\ pc' = "retrace"
                          /\ UNCHANGED error
       ELSE /\ pc' = "done"
            /\ UNCHANGED <<round, additionalLibs, fetches, error>>
    /\ UNCHANGED <<env, minLt, ourTx, prevTxsInBlock, libs,
                   loadedCode, initialShardAccountBase64, balance, shardAccountBase64,
                   prevBalance, idx, calls, result, results, roundLibs>>

Next ==
    \/ FindBaseTxByHash
    \/ FindRawTxByHash
    \/ FindShardBlockForTx
    \/ FindFullBlockForSeqno
    \/ FindAllTransactionsBetween
    \/ GetBlockConfig
    \/ GetBlockAccount
    \/ CollectUsedLibraries
    \/ EmulatePreviousStep
    \/ EmulatePreviousReturn
    \/ EmulateTarget
    \/ Diagnose

Spec == Init /\ [][Next]_vars

(***************************************************************************)
(* The Chain Locator alone, on ledgers with gaps and on ledgers around the *)
(* request limit.                                                          *)
(***************************************************************************)
Ledgers ==
    {LedgerOf(S) : S \in (SUBSET (1..MaxLt)) \ {{}}}
    \cup {LedgerUpTo(n) : n \in (TxLimit - 1)..(TxLimit + 1)}

InitLocate ==
    /\ lookup \in Lookups
    /\ ledger \in Ledgers
    /\ \E i \in 1..Min(Len(ledger), MaxTargetDepth) : target = ledger[i].lt
    /\ fullBlock \in Blocks
    /\ accountBefore = Absent
    /\ initCode = NoInit
    /\ needs = {}
    /\ callerLibs = <<>>
    /\ replies = FaithfulReplies
    /\ lookup # "ok" => Len(ledger) = 1 /\ fullBlock = <<>>
    /\ InitProgram("retrace")

NextLocate ==
    \/ FindBaseTxByHash
    \/ FindRawTxByHash
    \/ FindShardBlockForTx
    \/ FindFullBlockForSeqno
    \/ FindAllTransactionsBetween

SpecLocate == InitLocate /\ [][NextLocate]_vars

(***************************************************************************)
(* emulatePreviousTransactions alone, called with any balance, any short   *)
(* list of transactions and any snapshot.                                  *)
(***************************************************************************)
ReplayTxs == [lt : 1..MaxLt, after : {Absent} \cup [coins : 0..MaxCoins]]

ReplayLists == UNION {[1..n -> ReplayTxs] : n \in 0..MaxPrev}

InitReplay ==
    /\ lookup = "ok"
    /\ ledger = <<>>
    /\ target = 0
    /\ fullBlock = <<>>
    /\ accountBefore \in {Absent} \cup [coins : 0..MaxCoins, state : {"uninit"},
                                       code : {Absent}]
    /\ initCode = NoInit
    /\ needs = {}
    /\ callerLibs = <<>>
    /\ replies = FaithfulReplies
    /\ pc = "emulatePreviousTransactions"
    /\ round = 0
    /\ additionalLibs = <<>>
    /\ minLt = 0
    /\ ourTx = Absent
    /\ prevTxsInBlock \in ReplayLists
    /\ libs = Absent
    /\ loadedCode = Absent
    /\ initialShardAccountBase64 =
           shardAccountToBase64([account |-> accountBefore, lastTransactionLt |-> 0])
    /\ balance \in 0..MaxCoins
    /\ shardAccountBase64 = initialShardAccountBase64
    /\ prevBalance = balance
    /\ idx = 0
    /\ calls = <<>>
    /\ fetches = <<>>
    /\ result = Absent
    /\ results = <<>>
    /\ roundLibs = <<>>
    /\ error = Absent

NextReplay ==
    \/ EmulatePreviousStep
    \/ EmulatePreviousReturn

SpecReplay == InitReplay /\ [][NextReplay]_vars

(***************************************************************************)
(* retrace with providers that may answer a request with any content,      *)
(* under the scheduling of an async function: a step that can be taken is  *)
(* taken.                                                                  *)
(***************************************************************************)
InitLive ==
    /\ lookup = "ok"
    /\ \E n \in 1..MaxTargetDepth :
          /\ ledger = LedgerUpTo(n)
          /\ target = n
          /\ fullBlock = BlockOf(ledger, 1, n)
    /\ accountBefore \in {a \in AccountsBefore : a # Absent /\ a.coins = MaxCoins
                                                 /\ a.code \in {Absent, OrdinaryCode(0)}}
    /\ initCode = NoInit
    /\ needs \in SUBSET Hashes
    /\ callerLibs = <<>>
    /\ replies = Replies
    /\ InitProgram("retrace")

SpecLive == InitLive /\ [][Next]_vars /\ WF_vars(Next)

(***************************************************************************)
(* The two detectors alone: addMaybeExoticLibrary of collectUsedLibraries  *)
(* and then tryLoadAsLibrary of the retry path are called with the same    *)
(* cell, which initCode holds.                                             *)
(***************************************************************************)
\* Cells of the library length, shorter and longer, with the library tag and
\* with the tags around it.
DetectCells == [bits : {LibraryCellBits, 256, 272}, tag : {0, 1, ExoticLibraryTag, 3, 255},
                payload : Hashes]

InitDetect ==
    /\ lookup = "ok"
    /\ ledger = <<>>
    /\ target = 0
    /\ fullBlock = <<>>
    /\ accountBefore = Absent
    /\ initCode \in DetectCells
    /\ needs = {}
    /\ callerLibs = <<>>
    /\ replies = Replies
    /\ InitProgram("addMaybeExoticLibrary")

\* methods.ts lines 381-395: loadedCellCode = await addMaybeExoticLibrary(code).
AddMaybeExoticLibrary ==
    /\ pc = "addMaybeExoticLibrary"
    /\ \E ans \in ProviderAnswers :
          LET r == addMaybeExoticLibrary(initCode, EmptyDict, ans)
          IN /\ fetches' = fetches \o r.requests
             /\ IF r.threw
                THEN /\ Throw([message |-> "Get library"])
                     /\ UNCHANGED <<libs, loadedCode>>
                ELSE /\ libs' = DictCell(r.dict)
                     /\ loadedCode' = r.actualCode
                     /\ pc' = "tryLoadAsLibrary"
                     /\ UNCHANGED error
    /\ UNCHANGED <<env, round, additionalLibs, minLt, ourTx, prevTxsInBlock,
                   initialShardAccountBase64, balance, shardAccountBase64, prevBalance,
                   idx, calls, result, results, roundLibs>>

\* part_001 lines 268-291: libraryResult = await tryLoadAsLibrary(cell).
TryLoadAsLibrary ==
    /\ pc = "tryLoadAsLibrary"
    /\ \E ans \in ProviderAnswers :
          LET r == tryLoadAsLibrary(initCode, ans)
          IN /\ fetches' = fetches \o r.requests
             /\ IF r.threw
                THEN /\ Throw([message |-> "Get library"])
                     /\ UNCHANGED result
                ELSE /\ result' = r.value
                     /\ pc' = "done"
                     /\ UNCHANGED error
    /\ UNCHANGED <<env, round, additionalLibs, minLt, ourTx, prevTxsInBlock, libs,
                   loadedCode, initialShardAccountBase64, balance, shardAccountBase64,
                   prevBalance, idx, calls, results, roundLibs>>

NextDetect ==
    \/ AddMaybeExoticLibrary
    \/ TryLoadAsLibrary

SpecDetect == InitDetect /\ [][NextDetect]_vars

(***************************************************************************)
(* collectUsedLibraries alone, called with any account, any StateInit code *)
(* and any short list of additional libraries.                             *)
(***************************************************************************)
\* A supplied pair: a hash with the content of that fragment, of another
\* fragment or of none.
SuppliedPairs == {<<h, OrdinaryCode(c)>> : h \in Hashes, c \in 0..NumHashes}

AdditionalLists == {<<>>} \cup {<<p>> : p \in SuppliedPairs}
                   \cup {<<p, q>> : p \in SuppliedPairs, q \in SuppliedPairs}

InitScan ==
    /\ lookup = "ok"
    /\ ledger = <<>>
    /\ target = 0
    /\ fullBlock = <<>>
    /\ accountBefore \in {a \in AccountsBefore : a = Absent \/ a.coins = MaxCoins}
    /\ initCode \in InitCodes
    /\ needs = {}
    /\ callerLibs \in AdditionalLists
    /\ replies = FaithfulReplies
    /\ InitProgram("collectUsedLibraries")

NextScan == CollectUsedLibraries

SpecScan == InitScan /\ [][NextScan]_vars

(***************************************************************************)
(* calculateSentTotal alone, over the outgoing messages of a transaction   *)
(* that are then edited in their external messages and summed again.       *)
(***************************************************************************)
InitSent ==
    /\ lookup = "ok"
    /\ ledger = <<>>
    /\ target = 0
    /\ fullBlock = <<>>
    /\ accountBefore = Absent
    /\ initCode = NoInit
    /\ needs = {}
    /\ callerLibs = <<>>
    /\ replies = FaithfulReplies
    /\ pc = "calculateSentTotal"
    /\ round = 0
    /\ additionalLibs = <<>>
    /\ minLt = 0
    /\ ourTx \in [outMessages : MessageLists(MaxOutMessages)]
    /\ prevTxsInBlock = <<>>
    /\ libs = Absent
    /\ loadedCode = Absent
    /\ initialShardAccountBase64 = Absent
    /\ balance = 0
    /\ shardAccountBase64 = Absent
    /\ prevBalance = 0
    /\ idx = 0
    /\ calls = <<>>
    /\ fetches = <<>>
    /\ result = Absent
    /\ results = <<>>
    /\ roundLibs = <<>>
    /\ error = Absent

SentUnchanged ==
    UNCHANGED <<env, additionalLibs, minLt, prevTxsInBlock, libs, loadedCode,
                initialShardAccountBase64, balance, shardAccountBase64, prevBalance,
                idx, calls, fetches, roundLibs, error>>

\* methods.ts line 630: const sentTotal = calculateSentTotal(emulatedTx).
CalculateSentTotal ==
    /\ pc = "calculateSentTotal"
    /\ result' = [sentTotal |-> calculateSentTotal(ourTx)]
    /\ results' = Append(results, result')
    /\ pc' = "done"
    /\ UNCHANGED <<round, ourTx>>
    /\ SentUnchanged

\* The sequence without its i-th element.
RemoveAt(seq, i) == SubSeq(seq, 1, i - 1) \o SubSeq(seq, i + 1, Len(seq))

\* The sequence with m put in front of its i-th element.
InsertAt(seq, i, m) == SubSeq(seq, 1, i - 1) \o <<m>> \o SubSeq(seq, i, Len(seq))

\* The transaction is summed again after its outgoing messages were edited.
Edited(msgs) ==
    /\ pc = "done"
    /\ round < MaxEdits
    /\ ourTx' = [ourTx EXCEPT !.outMessages = msgs]
    /\ round' = round + 1
    /\ pc' = "calculateSentTotal"
    /\ UNCHANGED <<result, results>>
    /\ SentUnchanged

AddExternalOut ==
    /\ Len(ourTx.outMessages) < MaxOutMessages
    /\ \E i \in 1..(Len(ourTx.outMessages) + 1), m \in ExternalOutMessages :
          Edited(InsertAt(ourTx.outMessages, i, m))

RemoveExternalOut ==
    \E i \in 1..Len(ourTx.outMessages) :
        /\ ourTx.outMessages[i] \in ExternalOutMessages
        /\ Edited(RemoveAt(ourTx.outMessages, i))

ChangeExternalOut ==
    \E i \in 1..Len(ourTx.outMessages), m \in ExternalOutMessages :
        /\ ourTx.outMessages[i] \in ExternalOutMessages
        /\ m # ourTx.outMessages[i]
        /\ Edited([ourTx.outMessages EXCEPT ![i] = m])

NextSent ==
    \/ CalculateSentTotal
    \/ AddExternalOut
    \/ RemoveExternalOut
    \/ ChangeExternalOut

SpecSent == InitSent /\ [][NextSent]_vars

(***************************************************************************)
(* computeFinalData alone, over the results a successful emulation may     *)
(* return.                                                                 *)
(***************************************************************************)
\* The compute phases: skipped, or run with any success flag, exit code,
\* step count and gas figures.
ComputePhases ==
    {ComputeSkipped}
    \cup {ComputePhaseVm(ok, code, steps, used, fees) :
             ok \in BOOLEAN, code \in {0, 7, LibraryLoadExit},
             steps \in {5, 6}, used \in {7, 8}, fees \in {0, 9}}

ActionPhases == {Absent, ActionPhase(0), ActionPhase(LibraryLoadExit)}

\* The incoming messages of the emulated transaction: none, internal from
\* any account with any value, external with no source or with one.
InMessages ==
    {Absent}
    \cup {InternalIn(Address(a), Address(OurAccount), c) : a \in Accounts, c \in 0..MaxValue}
    \cup {ExternalIn(src, Address(OurAccount)) : src \in {Null, ExternalAddress(1)}}

EmulatedTransactions ==
    [inMessage : InMessages,
     outMessages : MessageLists(1),
     totalFees : {[coins |-> 1]},
     description : [type : {"generic", "tick-tock"},
                    computePhase : ComputePhases,
                    actionPhase : ActionPhases]]

InitFinalData ==
    /\ lookup = "ok"
    /\ ledger = <<>>
    /\ target = 0
    /\ fullBlock = <<>>
    /\ accountBefore = Absent
    /\ initCode = NoInit
    /\ needs = {}
    /\ callerLibs = <<>>
    /\ replies = FaithfulReplies
    /\ pc = "computeFinalData"
    /\ round = 0
    /\ additionalLibs = <<>>
    /\ minLt = 0
    /\ ourTx \in EmulatedTransactions
    /\ prevTxsInBlock = <<>>
    /\ libs = Absent
    /\ loadedCode = Absent
    /\ initialShardAccountBase64 = Absent
    /\ balance = 0
    /\ shardAccountBase64 =
           shardAccountToBase64([account |-> [coins |-> MaxCoins, state |-> "active",
                                              code |-> OrdinaryCode(0)],
                                 lastTransactionLt |-> 1])
    /\ prevBalance = 0
    /\ idx = 0
    /\ calls = <<>>
    /\ fetches = <<>>
    /\ result = Absent
    /\ results = <<>>
    /\ roundLibs = <<>>
    /\ error = Absent

\* part_001 line 211: computeFinalData(txRes.result, prevBalance).
ComputeFinalData ==
    /\ pc = "computeFinalData"
    /\ LET final == computeFinalData([transaction |-> ourTx,
                                      shardAccount |-> shardAccountBase64],
                                     prevBalance)
       IN IF final.threw
          THEN /\ Throw(final.error)
               /\ UNCHANGED result
          ELSE /\ result' = final
               /\ pc' = "done"
               /\ UNCHANGED error
    /\ UNCHANGED <<env, round, additionalLibs, minLt, ourTx, prevTxsInBlock, libs,
                   loadedCode, initialShardAccountBase64, balance, shardAccountBase64,
                   prevBalance, idx, calls, fetches, results, roundLibs>>

NextFinalData == ComputeFinalData

SpecFinalData == InitFinalData /\ [][NextFinalData]_vars

(***************************************************************************)
(* Two retrace calls interleaved at their awaits.  Every program variable  *)
(* holds one value per call; callerLibs is the one array the caller passed *)
(* to both calls.  The locator and the replay touch no array and no table  *)
(* and are left out: a call scans the libraries, emulates the target and   *)
(* diagnoses the report.                                                   *)
(***************************************************************************)
Reconstructions == {1, 2}

\* The array object a call holds as additionalLibs: the caller's array, or an
\* array the call created itself.
CallerArray == [array |-> "caller", items |-> <<>>]
OwnArray(items) == [array |-> "own", items |-> items]

\* The elements of the array object.
ArrayItems(ref) == IF ref.array = "caller" THEN callerLibs ELSE ref.items

\* Mutant: the new entry is pushed onto the array the call holds.
RetraceWith_PushInPlace(p, libraryResult) ==
    IF additionalLibs[p].array = "caller"
    THEN /\ callerLibs' = nextAdditionalLibs(callerLibs, libraryResult)
         /\ UNCHANGED additionalLibs
    ELSE /\ additionalLibs' = [additionalLibs EXCEPT ![p] =
                 OwnArray(nextAdditionalLibs(ArrayItems(@), libraryResult))]
         /\ UNCHANGED callerLibs

\* part_001 line 115: retrace(testnet, txLink, [...additionalLibs, additionalLib])
\* is called with a new array.
RetraceWith(p, libraryResult) ==
    /\ additionalLibs' = [additionalLibs EXCEPT ![p] =
           OwnArray(nextAdditionalLibs(ArrayItems(@), libraryResult))]
    /\ UNCHANGED callerLibs

\* The accounts of the two transactions: inline code or a fragment reference.
PairAccounts ==
    [coins : {MaxCoins}, state : {"active"},
     code : {OrdinaryCode(0), LibraryCell(1)}]

InitPair ==
    /\ lookup = "ok"
    /\ ledger = <<>>
    /\ target = 0
    /\ fullBlock = <<>>
    /\ accountBefore \in [Reconstructions -> PairAccounts]
    /\ initCode = NoInit
    /\ needs \in [Reconstructions -> {{}, {1}, {NumHashes}, {1, NumHashes}}]
    /\ callerLibs \in CallerLibs
    /\ replies = FaithfulReplies
    /\ pc = [p \in Reconstructions |-> "collectUsedLibraries"]
    /\ round = [p \in Reconstructions |-> 0]
    /\ additionalLibs = [p \in Reconstructions |-> CallerArray]
    /\ minLt = 0
    /\ ourTx = Tx(1, [coins |-> MaxCoins])
    /\ prevTxsInBlock = <<>>
    /\ libs = [p \in Reconstructions |-> Absent]
    /\ loadedCode = [p \in Reconstructions |-> Absent]
    /\ initialShardAccountBase64 = Absent
    /\ balance = 0
    /\ shardAccountBase64 = Absent
    /\ prevBalance = 0
    /\ idx = 0
    /\ calls = <<>>
    /\ fetches = [p \in Reconstructions |-> <<>>]
    /\ result = [p \in Reconstructions |-> Absent]
    /\ results = <<>>
    /\ roundLibs = <<>>
    /\ error = [p \in Reconstructions |-> Absent]

PairUnchanged ==
    UNCHANGED <<lookup, ledger, target, fullBlock, accountBefore, initCode, needs,
                replies, minLt, ourTx, prevTxsInBlock, initialShardAccountBase64,
                balance, shardAccountBase64, prevBalance, idx, calls, results,
                roundLibs>>

\* Call p throws e.
PairThrow(p, e) ==
    /\ pc' = [pc EXCEPT ![p] = "failed"]
    /\ error' = [error EXCEPT ![p] = e]

\* Call p: collectUsedLibraries builds a new table from the codes and the
\* array the call holds.
PairCollectUsedLibraries(p) ==
    /\ pc[p] = "collectUsedLibraries"
    /\ \E ans1 \in ProviderAnswers, ans2 \in ProviderAnswers :
          LET r == collectUsedLibraries(accountBefore[p], initCode,
                                        ArrayItems(additionalLibs[p]), ans1, ans2)
          IN /\ fetches' = [fetches EXCEPT ![p] = @ \o r.requests]
             /\ IF r.threw
                THEN /\ PairThrow(p, [message |-> "Get library"])
                     /\ UNCHANGED <<libs, loadedCode>>
                ELSE /\ libs' = [libs EXCEPT ![p] = r.libs]
                     /\ loadedCode' = [loadedCode EXCEPT ![p] = r.loadedCode]
                     /\ pc' = [pc EXCEPT ![p] = "emulateTarget"]
                     /\ UNCHANGED error
    /\ UNCHANGED <<callerLibs, round, additionalLibs, result>>
    /\ PairUnchanged

\* Call p: the target is emulated with the table of the call.
PairEmulateTarget(p) ==
    /\ pc[p] = "emulateTarget"
    /\ LET missing == needs[p] \ Supplied(libs[p])
           outcomes == IF missing # {} THEN {MissingFragmentOutcome(h) : h \in missing}
                       ELSE {[computePhase |-> ComputeVm(0), actionPhase |-> Absent,
                              vmLog |-> <<>>]}
       IN \E o \in outcomes :
             LET text == shardAccountToBase64([account |-> accountBefore[p],
                                               lastTransactionLt |-> 0])
                 res == [shardAccount |-> RunTransaction(ourTx, text),
                         transaction |-> EmulatedTransaction(o),
                         vmLog |-> o.vmLog,
                         newHash |-> StateHash(ourTx.after)]
             IN result' = [result EXCEPT ![p] =
                    traceResult(res, CoinsOf([account |-> accountBefore[p]]),
                                loadedCode[p], codeCellOf(accountBefore[p], initCode),
                                ourTx)]
    /\ pc' = [pc EXCEPT ![p] = "diagnose"]
    /\ UNCHANGED <<callerLibs, round, additionalLibs, libs, loadedCode, fetches, error>>
    /\ PairUnchanged

\* Call p: the report is returned, or retrace is called again with the
\* fetched fragment.
PairDiagnose(p) ==
    /\ pc[p] = "diagnose"
    /\ IF IsLibraryLoadFailure(result[p]) /\ TopElement(result[p]).kind = "Cell"
       THEN \E ans \in ProviderAnswers :
               LET libraryResult == tryLoadAsLibrary(TopElement(result[p]).boc, ans)
               IN /\ fetches' = [fetches EXCEPT ![p] = @ \o libraryResult.requests]
                  /\ IF libraryResult.threw
                     THEN /\ PairThrow(p, [message |-> "Get library"])
                          /\ UNCHANGED <<callerLibs, round, additionalLibs>>
                     ELSE IF libraryResult.value = Absent
                     THEN /\ pc' = [pc EXCEPT ![p] = "done"]
                          /\ UNCHANGED <<callerLibs, round, additionalLibs, error>>
                     ELSE /\ round[p] < MaxRounds
                          /\ RetraceWith(p, libraryResult.value)
                          /\ round' = [round EXCEPT ![p] = @ + 1]
                          /\ pc' = [pc EXCEPT ![p] = "collectUsedLibraries"]
                          /\ UNCHANGED error
       ELSE /\ pc' = [pc EXCEPT ![p] = "done"]
            /\ UNCHANGED <<callerLibs, round, additionalLibs, fetches, error>>
    /\ UNCHANGED <<libs, loadedCode, result>>
    /\ PairUnchanged

NextPair ==
    \E p \in Reconstructions :
        \/ PairCollectUsedLibraries(p)
        \/ PairEmulateTarget(p)
        \/ PairDiagnose(p)

SpecPair == InitPair /\ [][NextPair]_vars

(***************************************************************************)
(* retrace with a transaction provider that may answer getTransactions     *)
(* with an empty list: it has none of the account's transactions.          *)
(***************************************************************************)
InitTarget ==
    /\ lookup = "ok"
    /\ \E n \in 1..MaxLt :
          /\ target \in 1..n
          /\ ledger \in {LedgerUpTo(n), <<>>}
          /\ \E from \in 1..target : fullBlock = BlockOf(LedgerUpTo(n), from, n)
    /\ accountBefore \in {a \in AccountsBefore : a = Absent \/ a.code \in {Absent, OrdinaryCode(0)}}
    /\ initCode = NoInit
    /\ needs = {}
    /\ callerLibs = <<>>
    /\ replies = FaithfulReplies
    /\ InitProgram("retrace")

SpecTarget == InitTarget /\ [][Next]_vars

(***************************************************************************)
(* findShardBlockForTx: the shard identifier sent to the provider.  A      *)
(* bigint is a sign and a magnitude of five 16-bit limbs, least            *)
(* significant first, so that 2^64 and every signed 64-bit value fit.      *)
(***************************************************************************)
LimbBase == 65536

BigIntOf(neg, mag) == [neg |-> neg, mag |-> mag]

\* BigInt("0x10000000000000000")
TwoTo64 == BigIntOf(FALSE, <<0, 0, 0, 0, 1>>)

\* a + b on magnitudes, limb by limb with carry.
RECURSIVE AddMag(_, _, _)
AddMag(a, b, carry) ==
    IF a = <<>> THEN <<>>
    ELSE LET sum == Head(a) + Head(b) + carry
         IN <<sum % LimbBase>> \o AddMag(Tail(a), Tail(b), sum \div LimbBase)

\* a - b on magnitudes with a >= b, limb by limb with borrow.
RECURSIVE SubMag(_, _, _)
SubMag(a, b, borrow) ==
    IF a = <<>> THEN <<>>
    ELSE LET diff == Head(a) - Head(b) - borrow
         IN <<(diff + LimbBase) % LimbBase>>
            \o SubMag(Tail(a), Tail(b), IF diff < 0 THEN 1 ELSE 0)

\* shardInt + b for b >= 0 and |shardInt| <= b when shardInt is negative.
AddBigInt(a, b) ==
    IF a.neg THEN BigIntOf(FALSE, SubMag(b.mag, a.mag, 0))
    ELSE BigIntOf(FALSE, AddMag(a.mag, b.mag, 0))

\* Mutant: the shard identifier is sent as it is.
ShardUint_AsIs(shardInt) == shardInt

\* methods.ts lines 126-127:
\* shardInt < 0 ? shardInt + BigInt("0x10000000000000000") : shardInt
ShardUint(shardInt) ==
    IF shardInt.neg THEN AddBigInt(shardInt, TwoTo64) ELSE shardInt

\* Magnitudes up to 2^63, with the limbs at and next to their ends.
ShardMagnitudes ==
    {<<l1, l2, l3, l4, 0>> : l1 \in {0, 1, LimbBase - 1}, l2 \in {0, 1, LimbBase - 1},
                             l3 \in {0, 1, LimbBase - 1},
                             l4 \in {0, 1, LimbBase \div 4, (LimbBase \div 2) - 1}}
    \cup {<<0, 0, 0, LimbBase \div 2, 0>>}

\* The signed 64-bit values among them: -2^63 <= s < 2^63, no negative zero.
ShardValues ==
    {BigIntOf(FALSE, m) : m \in {x \in ShardMagnitudes : x[4] < LimbBase \div 2}}
    \cup {BigIntOf(TRUE, m) : m \in ShardMagnitudes \ {<<0, 0, 0, 0, 0>>}}

InitShard ==
    /\ lookup = "ok"
    /\ ledger = <<>>
    /\ target = 0
    /\ fullBlock = <<>>
    /\ accountBefore = Absent
    /\ initCode = NoInit
    /\ needs = {}
    /\ callerLibs = <<>>
    /\ replies = FaithfulReplies
    /\ pc = "findShardBlockForTx"
    /\ round = 0
    /\ additionalLibs = <<>>
    /\ minLt = 0
    /\ ourTx \in [block : [shard : ShardValues]]
    /\ prevTxsInBlock = <<>>
    /\ libs = Absent
    /\ loadedCode = Absent
    /\ initialShardAccountBase64 = Absent
    /\ balance = 0
    /\ shardAccountBase64 = Absent
    /\ prevBalance = 0
    /\ idx = 0
    /\ calls = <<>>
    /\ fetches = <<>>
    /\ result = Absent
    /\ results = <<>>
    /\ roundLibs = <<>>
    /\ error = Absent

\* methods.ts lines 123-136: the request findShardBlockForTx sends.
SendShardRequest ==
    /\ pc = "findShardBlockForTx"
    /\ result' = [params |-> [shard |-> ShardUint(ourTx.block.shard)]]
    /\ pc' = "done"
    /\ UNCHANGED <<env, round, additionalLibs, minLt, ourTx, prevTxsInBlock, libs,
                   loadedCode, initialShardAccountBase64, balance, shardAccountBase64,
                   prevBalance, idx, calls, fetches, results, roundLibs, error>>

NextShard == SendShardRequest

SpecShard == InitShard /\ [][NextShard]_vars

(***************************************************************************)
(* The properties.                                                         *)
(***************************************************************************)
\* The account's transactions with minLt <= lt < target, oldest first.
PrecedingInRound ==
    LET InRound(t) == minLt <= t.lt /\ t.lt < target
    IN Reverse(SelectSeq(ledger, InRound))

\* C1: the list given to emulatePreviousTransactions is exactly the
\* account's transactions with logical time in [minLt, target lt), in
\* strictly increasing order, whatever their number.
C1_ReplaysExactlyTheRound ==
    pc = "getBlockConfig" => prevTxsInBlock = PrecedingInRound

\* A reconstruction whose round holds more transactions than one request returns.
C1_RoundLongerThanLimit ==
    /\ pc = "getBlockConfig"
    /\ Len(PrecedingInRound) >= TxLimit

\* emulatePreviousTransactions has returned.
ReplayReturned == pc = "emulateTarget"

\* C2: emulatePreviousTransactions calls the engine once per transaction, in
\* list order; the first call gets the starting snapshot, call i+1 gets the
\* snapshot call i returned, and the snapshot returned at the end is the one
\* the last call returned.
C2_OneCallPerTransactionChained ==
    pc \in {"emulatePreviousTransactions", "emulateTarget"} =>
        /\ Len(calls) = idx
        /\ \A i \in 1..Len(calls) :
              /\ calls[i].call.tx = prevTxsInBlock[i]
              /\ calls[i].call.shardAccount =
                     IF i = 1 THEN initialShardAccountBase64 ELSE calls[i - 1].returned
        /\ ReplayReturned =>
              /\ Len(calls) = Len(prevTxsInBlock)
              /\ prevTxsInBlock # <<>> =>
                     shardAccountBase64 = calls[Len(calls)].returned

\* A replay of two transactions that returned, the snapshots all different.
C2_TwoChainedCalls ==
    /\ ReplayReturned
    /\ Len(calls) = 2
    /\ calls[1].returned # initialShardAccountBase64
    /\ calls[2].returned # calls[1].returned

\* C3: with an empty list emulatePreviousTransactions returns the starting
\* snapshot and the starting balance and never calls the engine.
C3_EmptyListIsIdentity ==
    (ReplayReturned /\ prevTxsInBlock = <<>>) =>
        /\ shardAccountBase64 = initialShardAccountBase64
        /\ prevBalance = balance
        /\ calls = <<>>

\* An empty replay that returned, called with a balance that is not the one
\* in the snapshot.
C3_EmptyReplayReturned ==
    /\ ReplayReturned
    /\ prevTxsInBlock = <<>>
    /\ balance # CoinsOf(loadShardAccount(initialShardAccountBase64))

\* C5: after a replay of a non-empty list the returned balance is the one
\* decoded from the returned snapshot, 0 when it holds no account.
C5_BalanceReadFromSnapshot ==
    (ReplayReturned /\ prevTxsInBlock # <<>>) =>
        prevBalance = IF loadShardAccount(shardAccountBase64).account = Absent THEN 0
                      ELSE loadShardAccount(shardAccountBase64).account.coins

\* A replay that started with a balance other than the snapshot's and ended
\* on a snapshot without account.
C5_ReplayEndedWithoutAccount ==
    /\ ReplayReturned
    /\ Len(prevTxsInBlock) = 2
    /\ balance # CoinsOf(loadShardAccount(initialShardAccountBase64))
    /\ loadShardAccount(shardAccountBase64).account = Absent
    /\ balance # 0

\* The error of emulatePreviousTransactions is what ended the call.
ReplayFailed == pc = "failed" /\ error.message = "Transaction failed for lt"

\* C4: when the engine reports non-success for a preceding transaction an
\* error is raised at once; it carries that transaction's logical time and
\* both log streams; no engine call and no retry round follows it.
C4_FailFast ==
    /\ [](ReplayFailed =>
             LET last == calls[Len(calls)]
             IN /\ last.returned = Absent
                /\ last.call.tx = prevTxsInBlock[idx + 1]
                /\ last.call.round = round
                /\ error.lt = last.call.tx.lt
                /\ error.logs = LogsOf(last.call.tx.lt)
                /\ error.debugLogs = DebugLogsOf(last.call.tx.lt)
                /\ \A i \in 1..(Len(calls) - 1) : calls[i].returned # Absent)
    /\ [][/\ pc # "failed"
          /\ (pc = "emulatePreviousTransactions" /\ Len(calls') > Len(calls)
              /\ calls'[Len(calls')].returned = Absent) => ReplayFailed']_vars

\* In a retry round the first of two preceding transactions failed: the
\* second one and the target were never handed to the engine.
C4_FailedBeforeTheLast ==
    /\ ReplayFailed
    /\ idx = 0
    /\ Len(prevTxsInBlock) = 2
    /\ round = 1
    /\ calls[Len(calls)].call.tx = prevTxsInBlock[1]

\* What C6 calls the missing-fragment signature: exit code 9 and, at the end
\* of the log, a stack dump, a CTOS instruction entry, a "failed to load
\* library cell" exception entry and an exception-handler entry, in this order.
ShowsSignature(res) ==
    LET log == res.emulatedTx.vmLogs
        Last(n) == {i \in 1..Len(log) : i > Len(log) - n}
    IN /\ res.emulatedTx.computeInfo # Skipped
       /\ res.emulatedTx.computeInfo.exitCode = 9
       /\ \E d \in Last(6) :
             /\ log[d].kind = "VmExceptionHandler"
             /\ \E c \in {i \in Last(6) : i < d} :
                   /\ log[c].kind = "VmException"
                   /\ log[c].message = "failed to load library cell"
                   /\ \E b \in {i \in Last(6) : i < c} :
                         /\ log[b].kind = "VmExecute"
                         /\ log[b].instr = "CTOS"
                         /\ \E a \in {i \in Last(6) : i < b} : log[a].kind = "VmStack"

\* C6: a retry round starts only after a result that shows the signature;
\* after any other result retrace returns that result with no retry.
C6_RetryOnlyOnSignature ==
    /\ \A i \in 1..Len(results) : i <= round => ShowsSignature(results[i])
    /\ pc \in {"diagnose", "done"} => Len(results) = round + 1 /\ result = results[round + 1]
    /\ (pc = "done" /\ ~ShowsSignature(results[1])) => round = 0 /\ result = results[1]

\* retrace returned a result with exit code 9 whose log does not show the
\* signature.
C6_ReturnedExit9WithoutSignature ==
    /\ pc = "done"
    /\ result.emulatedTx.computeInfo # Skipped
    /\ result.emulatedTx.computeInfo.exitCode = 9
    /\ result.emulatedTx.vmLogs # <<>>
    /\ ~ShowsSignature(result)

\* The library table the engine got in round r.
TableOfRound(r) ==
    LET i == CHOOSE j \in 1..Len(calls) : calls[j].call.round = r
    IN KeysOf(calls[i].call.libs)

\* The hash in the top-of-stack cell of the stack dump of a log.
HashOnTopOfStack(log) ==
    LET dump == CHOOSE i \in 1..Len(log) : log[i].kind = "VmStack"
        stack == log[dump].stack
    IN stack[Len(stack)].boc.payload

\* C7: when exactly one fragment the transaction references during execution
\* is missing from the library table, and the providers answer a request
\* with the content asked for, retrace makes exactly one retry round,
\* whose table has exactly one more entry: the hash in the top-of-stack cell
\* of the stack dump of the first attempt.
C7_OneMissingFragmentOneRetry ==
    (\E j \in 1..Len(calls) : calls[j].call.round = 0 /\ calls[j].call.tx.lt = target
     /\ Cardinality(needs \ TableOfRound(0)) = 1) =>
        LET onTop == HashOnTopOfStack(results[1].emulatedTx.vmLogs)
        IN /\ round <= 1
           /\ pc = "done" => round = 1
           /\ round = 1 =>
                 /\ onTop \notin TableOfRound(0)
                 /\ Len(additionalLibs) = Len(callerLibs) + 1
                 /\ additionalLibs[Len(additionalLibs)][1] = onTop
           /\ \A j \in 1..Len(calls) : calls[j].call.round = 1 =>
                 KeysOf(calls[j].call.libs) = TableOfRound(0) \cup {onTop}

\* retrace returned after one retry for the one fragment referenced only
\* during execution, the caller having supplied no library.
C7_ReturnedAfterOneRetry ==
    /\ pc = "done"
    /\ callerLibs = <<>>
    /\ Cardinality(needs) = 1
    /\ TableOfRound(0) = {}
    /\ round = 1
    /\ result.emulatedTx.computeInfo # Skipped
    /\ result.emulatedTx.computeInfo.exitCode = 0

\* The result shows the signature and the top of the stack is a cell that is
\* no library cell.
TopIsOtherCell(res) ==
    /\ ShowsSignature(res)
    /\ IsLibraryLoadFailure(res)
    /\ TopElement(res).kind = "Cell"
    /\ TopElement(res).boc.bits # 264 \/ TopElement(res).boc.tag # 2

\* C8: when the signature matches and the top-of-stack cell is no library
\* cell, retrace fetches nothing, starts no retry round and returns the
\* result of the current attempt.
C8_GivesUpOnOtherCell ==
    [][(pc = "diagnose" /\ TopIsOtherCell(result)) =>
          /\ pc' = "done"
          /\ result' = result
          /\ fetches' = fetches
          /\ round' = round
          /\ additionalLibs' = additionalLibs]_vars

\* retrace gave up on a cell of library length whose leading byte is not 2.
C8_GaveUpOnWrongTag ==
    /\ pc = "done"
    /\ TopIsOtherCell(result)
    /\ TopElement(result).boc.bits = 264

\* C9: the first round uses the caller's list; every later round uses the
\* list of the round before with exactly one pair appended.
C9_LibsOnlyGrow ==
    /\ roundLibs # <<>> => roundLibs[1] = callerLibs
    /\ Len(roundLibs) = IF pc = "retrace" THEN round ELSE round + 1
    /\ pc # "retrace" => additionalLibs = roundLibs[Len(roundLibs)]
    /\ \A n \in 1..(Len(roundLibs) - 1) :
          /\ Len(roundLibs[n + 1]) = Len(roundLibs[n]) + 1
          /\ SubSeq(roundLibs[n + 1], 1, Len(roundLibs[n])) = roundLibs[n]
          /\ Len(roundLibs[n + 1][Len(roundLibs[n + 1])]) = 2

\* A third round: its list is the caller's list and two appended pairs.
C9_ThirdRound ==
    /\ Len(roundLibs) = 3
    /\ Len(roundLibs[3]) = Len(callerLibs) + 2

Terminated == pc \in {"done", "failed"}

\* C10: every call of retrace ends, with a result or with an error, after
\* no more retry rounds than there are fragment hashes the transaction can
\* reference.
C10_RetraceTerminates == [](round <= NumHashes) /\ <>Terminated

\* retrace returned after two retry rounds.
C10_ReturnedAfterTwoRetries ==
    /\ pc = "done"
    /\ round = 2

\* The target transaction as recorded on chain.
OnChainTarget == ledger[CHOOSE i \in 1..Len(ledger) : ledger[i].lt = target]

\* The engine invocations for the target that succeeded.
TargetRuns ==
    {j \in 1..Len(calls) : calls[j].call.tx.lt = target /\ calls[j].returned # Absent}

ReportFields ==
    {"stateUpdateHashOk", "codeCell", "originalCodeCell", "inMsg", "money", "emulatedTx"}

C12_MismatchThrows ==
    \A j \in TargetRuns :
        (calls[j].call.round = round /\ calls[j].newHash # StateHash(OnChainTarget.after))
            => pc = "failed"

\* The mismatch has been detected: the report of this round is assembled
\* with the flag false.
C12_MismatchDetected ==
    /\ pc = "diagnose"
    /\ Len(results) = round + 1
    /\ ~result.stateUpdateHashOk

\* Where retrace is while the lookup that will fail has not been made, and
\* the message of the Error it throws then.
BeforeFailedLookup ==
    CASE lookup = "no base tx" -> {"retrace"}
      [] lookup = "no raw tx" -> {"retrace", "findRawTxByHash"}
      [] OTHER -> {"retrace", "findRawTxByHash", "findShardBlockForTx"}

LookupErrorMessage ==
    CASE lookup = "no base tx" -> "Cannot find transaction info"
      [] lookup = "no raw tx" -> "Cannot find transaction info"
      [] lookup = "no shard block" -> "Cannot find shard block for transaction"
      [] OTHER -> "root_hash mismatch in mc_seqno getter"

\* C13: when the hash lookup yields no record, the full-record lookup yields
\* none, the shard block is not found or its root hash differs, the call
\* ends with an error at that lookup: no engine invocation, no provider
\* request and no retry round is made.
C13_FailedLookupIsFatal ==
    lookup # "ok" =>
        /\ pc \in BeforeFailedLookup \cup {"failed"}
        /\ pc = "failed" => error.message = LookupErrorMessage
        /\ calls = <<>>
        /\ fetches = <<>>
        /\ results = <<>>
        /\ round = 0

\* The call failed at the root hash comparison.
C13_FailedOnRootHash ==
    /\ lookup = "root_hash mismatch"
    /\ pc = "failed"
    /\ error.message = "root_hash mismatch in mc_seqno getter"

\* The logical times the block's shard summaries list for an account.
SummaryLts(account) ==
    {fullBlock[i][j].lt : <<i, j>> \in
        {p \in (1..Len(fullBlock)) \X (1..MaxLt + 1) :
            /\ p[2] <= Len(fullBlock[p[1]])
            /\ fullBlock[p[1]][p[2]].account = account}}

\* C14: computeMinLt returns the minimum of the target's logical time and
\* the logical times of the account's entries in all shard summaries of the
\* block; entries of other accounts do not change it.
C14_MinLtIsMinimumOfAccount ==
    pc \in {"findAllTransactionsBetween", "getBlockConfig"} =>
        LET lts == SummaryLts(OurAccount) \cup {target}
        IN /\ minLt \in lts
           /\ \A lt \in lts : minLt <= lt
           /\ minLt <= target
           /\ (\A lt \in SummaryLts(OurAccount) : lt >= target) => minLt = target

\* The account's earliest entry is in the second shard summary, and another
\* account has an earlier entry still.
C14_EarlierEntryOfOtherAccount ==
    /\ pc = "findAllTransactionsBetween"
    /\ Len(fullBlock) = 2
    /\ minLt < target
    /\ minLt \notin {fullBlock[1][j].lt : j \in 1..Len(fullBlock[1])}
    /\ \E lt \in SummaryLts("B") : lt < minLt

\* A cell refers to the fragment with hash h: 264 bits, of which the first 8
\* are the number 2 and the next 256 are h.
RefersToFragment(cell, h) == cell.bits = 264 /\ cell.tag = 2 /\ cell.payload = h

IsFragmentReference(cell) == \E h \in Hashes : RefersToFragment(cell, h)

\* C15: both detectors take a cell for a reference to fragment h exactly
\* when it is 264 bits long, begins with the byte 2 and goes on with h:
\* then, and only then, each of them asks the providers for h and gives the
\* content under h; for every other cell neither asks for anything.
C15_DetectorsAgree ==
    /\ \A i \in 1..Len(fetches) :
          /\ IsFragmentReference(initCode)
          /\ RefersToFragment(initCode, fetches[i].hash[2])
    /\ pc = "tryLoadAsLibrary" =>
          /\ (fetches # <<>>) = IsFragmentReference(initCode)
          /\ (loadedCode # Absent) = IsFragmentReference(initCode)
          /\ \A h \in Hashes : (h \in KeysOf(libs)) = RefersToFragment(initCode, h)
    /\ pc = "done" =>
          /\ (result # Absent) = IsFragmentReference(initCode)
          /\ (result # Absent) = (loadedCode # Absent)
          /\ result # Absent =>
                /\ RefersToFragment(initCode, BigIntOfHex(result.libHashHex))
                /\ KeysOf(libs) = {BigIntOfHex(result.libHashHex)}
                \* each detector asked the primary provider once
                /\ Cardinality({i \in 1..Len(fetches) : fetches[i].to = "toncenter"}) = 2
    /\ pc = "failed" => IsFragmentReference(initCode)

\* Both detectors were given a cell of the library length whose first byte
\* is 3, and both took it for ordinary code.
C15_BothRejectedNearMiss ==
    /\ pc = "done"
    /\ initCode.bits = 264
    /\ initCode.tag = 3
    /\ result = Absent
    /\ loadedCode = Absent
    /\ fetches = <<>>

\* The code cells collectUsedLibraries is to scan: the account's code when
\* the account is active, and the code of the incoming message's StateInit.
ScannedCodes ==
    (IF accountBefore # Absent /\ accountBefore.state = "active"
     THEN {accountBefore.code} ELSE {})
    \cup (IF initCode # NoInit THEN {initCode} ELSE {})

\* C16: after collectUsedLibraries the library table has an entry for every
\* fragment the account's active code or the StateInit code refers to.
C16_BothCodesScanned ==
    pc = "emulatePreviousTransactions" =>
        \A code \in ScannedCodes :
            IsFragmentReference(code) => code.payload \in KeysOf(libs)

\* collectUsedLibraries returned for an account and a StateInit whose codes
\* refer to two different fragments.
C16_TwoReferencesScanned ==
    /\ pc = "emulatePreviousTransactions"
    /\ Cardinality(ScannedCodes) = 2
    /\ \A code \in ScannedCodes : IsFragmentReference(code)

\* The content of the answer to the last request made.
LastDelivered ==
    LET last == fetches[Len(fetches)]
    IN IF last.reply = "content" THEN OrdinaryCode(last.hash[2]) ELSE OrdinaryCode(0)

\* C17: every fetch asks toncenter first; dton is asked only after toncenter
\* failed and after the delay; the fetch returns the content of toncenter's
\* answer when there is one, else the content of dton's answer, and fails
\* only when both failed.
C17_PrimaryThenPacedSecondary ==
    /\ \A i \in 1..Len(fetches) :
          /\ fetches[i].to = "toncenter" =>
                /\ i > 1 => fetches[i - 1].to # "wait"
                /\ i > 1 => fetches[i - 1].reply # "error"
                /\ fetches[i].reply = "error" => i + 2 <= Len(fetches)
                /\ (i < Len(fetches) /\ fetches[i].reply # "error")
                       => fetches[i + 1].to = "toncenter"
          /\ fetches[i].to = "wait" =>
                /\ i > 1 /\ i < Len(fetches)
                /\ fetches[i - 1].to = "toncenter" /\ fetches[i - 1].reply = "error"
                /\ fetches[i + 1].to = "dton" /\ fetches[i + 1].hash = fetches[i].hash
          /\ fetches[i].to = "dton" =>
                /\ i > 2
                /\ fetches[i - 1].to = "wait"
                /\ fetches[i - 2].hash = fetches[i].hash
                /\ fetches[i].reply = "error" => i = Len(fetches) /\ pc = "failed"
    /\ (pc = "tryLoadAsLibrary" /\ fetches # <<>>) => loadedCode = LastDelivered
    /\ (pc = "done" /\ result # Absent) => result.actualCode = LastDelivered
    /\ pc = "failed" =>
          /\ Len(fetches) >= 3
          /\ fetches[Len(fetches)].to = "dton" /\ fetches[Len(fetches)].reply = "error"
          /\ fetches[Len(fetches) - 2].reply = "error"

\* toncenter failed and dton delivered the content that was returned.
C17_FellBackToSecondary ==
    /\ pc = "tryLoadAsLibrary"
    /\ Len(fetches) = 3
    /\ fetches[1].reply = "error"
    /\ fetches[3].reply = "content"
    /\ loadedCode = OrdinaryCode(initCode.payload)

\* The fragment references among the scanned codes.
ScannedReferences == {code \in ScannedCodes : IsFragmentReference(code)}

\* C18 as stated: every supplied pair is in the table, mapped to its content.
C18_EveryPairInTable ==
    pc = "emulatePreviousTransactions" =>
        \A i \in 1..Len(additionalLibs) :
            /\ additionalLibs[i][1] \in KeysOf(libs)
            /\ libs.dict[additionalLibs[i][1]] = additionalLibs[i][2]

\* C18, amended: every supplied hash is in the table, mapped to the content
\* of the last pair supplied for it; no provider is asked on account of a
\* supplied pair; the table is absent only when no fragment was detected and
\* no pair was supplied.
C18_LastPairPerHashInTable ==
    /\ pc = "emulatePreviousTransactions" =>
          /\ \A i \in 1..Len(additionalLibs) :
                /\ additionalLibs[i][1] \in KeysOf(libs)
                /\ (\A j \in (i + 1)..Len(additionalLibs) :
                        additionalLibs[j][1] # additionalLibs[i][1])
                       => libs.dict[additionalLibs[i][1]] = additionalLibs[i][2]
          /\ (libs = Absent) = (additionalLibs = <<>> /\ ScannedReferences = {})
          /\ KeysOf(libs) \subseteq
                 {additionalLibs[i][1] : i \in 1..Len(additionalLibs)}
                 \cup {code.payload : code \in ScannedReferences}
    /\ \A i \in 1..Len(fetches) :
          \E code \in ScannedReferences : fetches[i].hash = ToHexUpper(code.payload)
    /\ Cardinality({i \in 1..Len(fetches) : fetches[i].to = "toncenter"})
           <= Cardinality(ScannedReferences)

\* Two pairs were supplied for the hash the account's code refers to, with
\* different contents.
C18_TwoPairsForOneHash ==
    /\ pc = "emulatePreviousTransactions"
    /\ Len(additionalLibs) = 2
    /\ additionalLibs[1][1] = additionalLibs[2][1]
    /\ additionalLibs[1][2] # additionalLibs[2][2]
    /\ \E code \in ScannedReferences : code.payload = additionalLibs[1][1]

\* The last fetch recorded in the step asked the secondary provider, which
\* failed as the primary had.
EveryProviderFailed ==
    /\ Len(fetches') = Len(fetches) + 3
    /\ fetches'[Len(fetches) + 1].reply = "error"
    /\ fetches'[Len(fetches) + 3].reply = "error"

InternalTotal(msgs) ==
    LET Count(v) == Cardinality({i \in 1..Len(msgs) :
                        /\ msgs[i].info.type = "internal"
                        /\ msgs[i].info.value.coins = v})
        Weighted[v \in 0..MaxValue] ==
            IF v = 0 THEN 0 ELSE Weighted[v - 1] + v * Count(v)
    IN Weighted[MaxValue]

\* C20: calculateSentTotal is the sum of the values of the transaction's
\* outgoing internal messages, 0 without any; adding, removing or changing
\* outgoing external messages, whatever value they declare, leaves it as it
\* was.
C20_SentTotalIsInternalSum ==
    pc = "done" =>
        /\ result.sentTotal = InternalTotal(ourTx.outMessages)
        /\ \A i \in 1..Len(results) : results[i] = results[1]
        /\ (\A i \in 1..Len(ourTx.outMessages) :
                ourTx.outMessages[i].info.type # "internal") => result.sentTotal = 0

\* The total was computed again after an edit, for a transaction with an
\* internal message and an external message that both declare a value.
C20_SummedAgainAfterEdit ==
    /\ pc = "done"
    /\ round >= 1
    /\ Len(results) = round + 1
    /\ result.sentTotal > 0
    /\ \E i \in 1..Len(ourTx.outMessages) :
          /\ ourTx.outMessages[i].info.type = "external-out"
          /\ ourTx.outMessages[i].info.value.coins > 0

\* C21: computeInfo is "skipped" exactly when the compute phase was skipped;
\* otherwise its exit code is the compute exit code when that is not zero,
\* the action phase's result code when it is zero and there is an action
\* phase, and 0 when it is zero without an action phase; success, step
\* count, gas used and gas fee are those of the compute phase.
C21_ComputeInfoSummary ==
    pc = "done" =>
        LET computePhase == ourTx.description.computePhase
            actionPhase == ourTx.description.actionPhase
            info == result.computeInfo
        IN /\ (info = Skipped) = (computePhase.type = "skipped")
           /\ computePhase.type # "skipped" =>
                 /\ computePhase.exitCode # 0 => info.exitCode = computePhase.exitCode
                 /\ (computePhase.exitCode = 0 /\ actionPhase # Absent)
                        => info.exitCode = actionPhase.resultCode
                 /\ (computePhase.exitCode = 0 /\ actionPhase = Absent)
                        => info.exitCode = 0
                 /\ info.success = computePhase.success
                 /\ info.vmSteps = computePhase.vmSteps
                 /\ info.gasUsed = computePhase.gasUsed
                 /\ info.gasFees = computePhase.gasFees

\* The compute phase ended with exit code 0, the action phase with another
\* result code, and the summary shows the action phase's.
C21_ActionCodeReported ==
    /\ pc = "done"
    /\ ourTx.description.computePhase.type # "skipped"
    /\ ourTx.description.computePhase.exitCode = 0
    /\ ourTx.description.actionPhase # Absent
    /\ ourTx.description.actionPhase.resultCode # 0
    /\ result.computeInfo.exitCode = ourTx.description.actionPhase.resultCode

\* C22: a successful execution whose incoming message is external gives a
\* report part with neither sender nor amount and no error, whatever source
\* the message carries; for an internal incoming message sender and amount
\* are the source address and the value of the message.
C22_ExternalHasNoSender ==
    (ourTx.inMessage # Absent /\ ourTx.description.type = "generic") =>
        /\ pc # "failed"
        /\ pc = "done" =>
              IF ourTx.inMessage.info.type = "external-in"
              THEN result.sender = Absent /\ result.amount = Absent
              ELSE /\ result.sender = ourTx.inMessage.info.src
                   /\ result.amount = ourTx.inMessage.info.value.coins

\* computeFinalData threw on the source of an external incoming message.
C22_ThrewOnExternalSource ==
    /\ pc = "failed"
    /\ error.message = "Invalid src address"
    /\ ourTx.inMessage.info.type = "external-in"
    /\ ourTx.inMessage.info.src = ExternalAddress(1)
    /\ ourTx.description.type = "generic"

\* The account's active code is one fragment reference, the caller supplied
\* no fragment and the incoming message's code is no fragment reference.
CodeIsSingleReference ==
    /\ accountBefore # Absent
    /\ accountBefore.state = "active"
    /\ IsFragmentReference(accountBefore.code)
    /\ callerLibs = <<>>
    /\ ~(initCode # NoInit /\ IsFragmentReference(initCode))

\* C23: when the account's active code is a single fragment reference and
\* no fragment is supplied, the report of the first round has the raw
\* reference as originalCodeCell and the fetched content as codeCell, the two
\* differ, and every engine invocation of the round gets a library table
\* with exactly one entry, under the hash of that fragment.
C23_CodeIsTheFetchedFragment ==
    CodeIsSingleReference =>
        LET h == accountBefore.code.payload
        IN /\ \A j \in 1..Len(calls) :
                 calls[j].call.round = 0 =>
                     /\ KeysOf(calls[j].call.libs) = {h}
                     /\ Len(results) >= 1 =>
                            results[1].codeCell = calls[j].call.libs.dict[h]
           /\ Len(results) >= 1 =>
                 /\ results[1].originalCodeCell = accountBefore.code
                 /\ results[1].originalCodeCell.bits = LibraryCellBits
                 /\ results[1].codeCell = OrdinaryCode(h)
                 /\ results[1].codeCell # results[1].originalCodeCell

\* retrace returned the first round's report for such an account after
\* replaying a preceding transaction.
C23_ReturnedForReferenceCode ==
    /\ CodeIsSingleReference
    /\ pc = "done"
    /\ round = 0
    /\ Len(calls) >= 2
    /\ result.codeCell # result.originalCodeCell

\* The network calls of one reconstruction, in the order of the code.
PipelineOrder ==
    <<"retrace", "findRawTxByHash", "findShardBlockForTx", "findFullBlockForSeqno",
      "findAllTransactionsBetween", "getBlockConfig", "getBlockAccount",
      "collectUsedLibraries", "emulatePreviousTransactions", "emulateTarget">>

Position(p) == CHOOSE i \in 1..Len(PipelineOrder) : PipelineOrder[i] = p

\* C24: one call of a reconstruction is outstanding at a time.  The call the
\* program waits for is the one at pc; when it completes the program fails,
\* or issues the next call of the fixed order (the replay issues one engine
\* invocation after the other), and a step never completes calls of two
\* kinds: provider requests are made only by the library scan, one after
\* the other, and each replay or target step makes one engine invocation.
C24_OneCallAtATime ==
    [][(\E i \in 1..Len(PipelineOrder) : PipelineOrder[i] = pc) =>
          /\ \/ pc' = "failed"
             \/ Position(pc) < Len(PipelineOrder)
                    /\ pc' = PipelineOrder[Position(pc) + 1]
             \/ pc = "emulatePreviousTransactions" /\ pc' = pc /\ idx' = idx + 1
             \/ pc = "emulateTarget" /\ pc' = "diagnose"
          /\ calls' # calls =>
                /\ pc \in {"emulatePreviousTransactions", "emulateTarget"}
                /\ Len(calls') = Len(calls) + 1
                /\ SubSeq(calls', 1, Len(calls)) = calls
                /\ fetches' = fetches
          /\ fetches' # fetches =>
                /\ pc = "collectUsedLibraries"
                /\ calls' = calls
                /\ SubSeq(fetches', 1, Len(fetches)) = fetches
                /\ \A k \in (Len(fetches) + 1)..(Len(fetches') - 1) :
                       fetches'[k].to = "wait" \/ fetches'[k].reply = "error"
                           \/ fetches'[k + 1].to = "toncenter"
          /\ (pc = "emulatePreviousTransactions" /\ pc' = pc) => calls' # calls]_vars

\* One reconstruction ran through every kind of call: it fetched a fragment,
\* replayed a preceding transaction and emulated the target.
C24_RanWholePipeline ==
    /\ pc = "done"
    /\ round = 0
    /\ fetches # <<>>
    /\ Len(calls) >= 2
    /\ calls[Len(calls)].call.tx = ourTx

\* What call p holds: position, array, table, loaded code, report.
StateOf(p) ==
    <<pc[p], round[p], ArrayItems(additionalLibs[p]), libs[p], loadedCode[p],
      result[p], error[p]>>

\* The fragments the account's code of call p refers to.
ScannedBy(p) ==
    IF IsFragmentReference(accountBefore[p].code)
    THEN {accountBefore[p].code.payload} ELSE {}

\* C25: two interleaved reconstructions share no mutable state.  A step of
\* one call leaves what the other holds as it was and never writes the
\* caller's array; the array of a call is the caller's list followed by the
\* fragments that call fetched, its table has the keys of that array and of
\* its own account's code, and the report a call returns is for a table
\* with the keys it would have had alone.
C25_NoSharedState ==
    /\ [](\A p \in Reconstructions :
             LET items == ArrayItems(additionalLibs[p])
             IN /\ Len(items) = Len(callerLibs) + round[p]
                /\ SubSeq(items, 1, Len(callerLibs)) = callerLibs
                /\ \A i \in (Len(callerLibs) + 1)..Len(items) : items[i][1] \in needs[p]
                /\ pc[p] \in {"emulateTarget", "diagnose", "done"} =>
                      KeysOf(libs[p]) = {items[i][1] : i \in 1..Len(items)}
                                        \cup ScannedBy(p)
                /\ pc[p] = "done" =>
                      KeysOf(libs[p]) = {callerLibs[i][1] : i \in 1..Len(callerLibs)}
                                        \cup ScannedBy(p) \cup needs[p])
    /\ [][/\ callerLibs' = callerLibs
          /\ \E p \in Reconstructions :
                \A q \in Reconstructions \ {p} : StateOf(q)' = StateOf(q)]_vars

\* Both calls returned after a retry each, for different fragments.
C25_BothRetriedAndReturned ==
    /\ \A p \in Reconstructions : pc[p] = "done" /\ round[p] >= 1
    /\ needs[1] # needs[2]
    /\ libs[1] # libs[2]

\* The hashes of the pairs of a list of additional libraries.
HashesOf(libList) == {libList[i][1] : i \in 1..Len(libList)}

\* C26: over the retry rounds of one retrace call the set of hashes grows
\* strictly: the hash a retry round adds is not yet in the list of the round
\* before, so there are no more retry rounds than fragment hashes.
C26_HashesStrictlyGrow ==
    /\ \A n \in 1..(Len(roundLibs) - 1) :
          /\ HashesOf(roundLibs[n]) \subseteq HashesOf(roundLibs[n + 1])
          /\ roundLibs[n + 1][Len(roundLibs[n + 1])][1] \notin HashesOf(roundLibs[n])
    /\ round <= NumHashes

\* A retry round added a pair for a hash the list already had.
C26_SameHashAddedAgain ==
    /\ round >= 2
    /\ Len(additionalLibs) >= 2
    /\ additionalLibs[Len(additionalLibs)][1]
           \in HashesOf(SubSeq(additionalLibs, 1, Len(additionalLibs) - 1))

\* The report has exit code 9 and its log has the entries of the signature
\* where the code reads them: the handler entry second from the end, the
\* exception entry third, the CTOS entry fourth and the stack dump sixth,
\* with a fragment reference on top of the stack.
SignatureWhereRead(res) ==
    LET log == res.emulatedTx.vmLogs
        n == Len(log)
    IN /\ res.emulatedTx.computeInfo # Skipped
       /\ res.emulatedTx.computeInfo.exitCode = 9
       /\ n >= 6
       /\ log[n - 1].kind = "VmExceptionHandler"
       /\ log[n - 2] = VmException("failed to load library cell")
       /\ log[n - 3] = VmExecute("CTOS")
       /\ log[n - 5].kind = "VmStack"
       /\ log[n - 5].stack # <<>>
       /\ log[n - 5].stack[Len(log[n - 5].stack)].kind = "Cell"
       /\ IsFragmentReference(log[n - 5].stack[Len(log[n - 5].stack)].boc)

\* The stack dump, the CTOS entry, the exception entry and the handler entry
\* follow one another, the handler entry being the last entry or the one
\* before it.
SignatureAdjacent(res) ==
    LET log == res.emulatedTx.vmLogs
    IN \E k \in 1..(Len(log) - 3) :
          /\ k + 3 >= Len(log) - 1
          /\ log[k].kind = "VmStack"
          /\ log[k + 1] = VmExecute("CTOS")
          /\ log[k + 2] = VmException("failed to load library cell")
          /\ log[k + 3].kind = "VmExceptionHandler"

\* C27 as stated: a retry round is started only from a log whose stack dump
\* immediately precedes the CTOS entry, which immediately precedes the
\* exception entry, which immediately precedes the handler entry.
C27_AdjacentEntriesTrigger ==
    \A i \in 1..Len(results) : i <= round => SignatureAdjacent(results[i])

\* C27, amended: a retry round is started exactly from a report with exit
\* code 9 whose log has the handler entry second from the end, before it the
\* exception entry "failed to load library cell", before it the CTOS entry,
\* and the stack dump two entries before the CTOS entry, with a fragment
\* reference on top; the entry between the stack dump and the CTOS entry and
\* the last entry are not looked at.  The pair the round adds has the hash
\* of that top-of-stack cell.
C27_SignaturePositions ==
    /\ \A i \in 1..Len(results) : i <= round =>
          LET log == results[i].emulatedTx.vmLogs
              stack == log[Len(log) - 5].stack
          IN /\ SignatureWhereRead(results[i])
             /\ Len(additionalLibs) >= Len(callerLibs) + i
             /\ additionalLibs[Len(callerLibs) + i][1] = stack[Len(stack)].boc.payload
    /\ pc = "done" => ~SignatureWhereRead(result)

\* A retry round was started from a log with an entry between the stack
\* dump and the CTOS entry.
C27_RetriedOnSeparatedStackDump ==
    /\ round >= 1
    /\ pc = "done"
    /\ LET log == results[1].emulatedTx.vmLogs
       IN /\ log[Len(log) - 5].kind = "VmStack"
          /\ log[Len(log) - 4] = VmLoc
          /\ log[Len(log) - 3] = VmExecute("CTOS")

\* The engine invocations of round r, in the order they were made.
RoundCalls(r) ==
    LET InRound(c) == c.call.round = r
    IN SelectSeq(calls, InRound)

\* The snapshot getBlockAccount answers, as it is handed to the engine.
FetchedSnapshot ==
    shardAccountToBase64([account |-> accountBefore, lastTransactionLt |-> 0])

\* The transactions a round emulates: the preceding ones, then the target.
RoundPlan == PrecedingInRound \o <<OnChainTarget>>

\* C28: a retry round runs the whole pipeline again.  It starts at the hash
\* lookup; its engine invocations are the preceding transactions and then
\* the target, the first from the fetched pre-block snapshot and each next
\* from the snapshot the one before returned; every one of them gets a table
\* with all the additional entries accumulated so far and the new one.
C28_RetryRerunsPipeline ==
    /\ [](\A r \in 1..round :
             LET rc == RoundCalls(r)
             IN /\ \A k \in 1..Len(rc) :
                      /\ k <= Len(RoundPlan)
                      /\ rc[k].call.tx = RoundPlan[k]
                      /\ rc[k].call.shardAccount =
                             IF k = 1 THEN FetchedSnapshot ELSE rc[k - 1].returned
                      /\ Len(roundLibs) >= r + 1
                      /\ Len(roundLibs[r + 1]) = Len(callerLibs) + r
                      /\ HashesOf(roundLibs[r + 1]) \subseteq KeysOf(rc[k].call.libs)
                /\ (r < round \/ pc \in {"diagnose", "done"}) => Len(rc) = Len(RoundPlan))
    /\ [][round' # round => round' = round + 1 /\ pc' = "retrace" /\ calls' = calls]_vars

\* A retry round replayed two preceding transactions and the target again.
C28_RetryRoundReplayed ==
    /\ round = 1
    /\ pc = "done"
    /\ Len(RoundCalls(1)) = 3
    /\ RoundCalls(1)[1].call.shardAccount = RoundCalls(0)[1].call.shardAccount
    /\ KeysOf(RoundCalls(1)[1].call.libs) # KeysOf(RoundCalls(0)[1].call.libs)

\* C29: the transaction emulated as the target is the one of the handle: it
\* is the first element of the list findAllTransactionsBetween returned, it
\* is not among the preceding transactions that are replayed, and with an
\* empty list no target emulation is attempted with an undefined transaction.
C29_TargetIsTheHandle ==
    /\ (/\ pc \in {"getBlockConfig", "getBlockAccount", "collectUsedLibraries",
                   "emulatePreviousTransactions", "emulateTarget", "diagnose", "done"}
        /\ findAllTransactionsBetween(ledger, target, minLt) # <<>>) =>
          /\ ourTx # Absent
          /\ ourTx.lt = target
          /\ findAllTransactionsBetween(ledger, target, minLt)[1] = ourTx
          /\ \A i \in 1..Len(prevTxsInBlock) : prevTxsInBlock[i].lt < target
    /\ \A j \in 1..Len(calls) :
          calls[j].call.tx.lt <= target
    /\ ~(pc = "failed" /\ ourTx = Absent /\ error.message = "TypeError")

\* The provider answered with an empty list and emulate was called with an
\* undefined transaction.
C29_EmulatedUndefinedTransaction ==
    /\ pc = "failed"
    /\ ledger = <<>>
    /\ ourTx = Absent
    /\ error.message = "TypeError"
    /\ calls = <<>>

\* C30: the shard identifier sent is the unsigned 64-bit value of the signed
\* one: s itself when s >= 0, s + 2^64 when s < 0; it lies in [0, 2^64) and
\* is congruent to s modulo 2^64.
C30_ShardSentUnsigned ==
    pc = "done" =>
        LET s == ourTx.block.shard
            sent == result.params.shard
        IN /\ ~sent.neg
           /\ Len(sent.mag) = 5
           /\ \A i \in 1..4 : sent.mag[i] \in 0..(LimbBase - 1)
           /\ sent.mag[5] = 0
           /\ ~s.neg => sent = s
           \* sent = s + 2^64, that is sent + |s| = 2^64
           /\ s.neg => AddMag(sent.mag, s.mag, 0) = TwoTo64.mag

\* The request was sent for the shard identifier -2^63.
C30_SentForMostNegativeShard ==
    /\ pc = "done"
    /\ ourTx.block.shard = BigIntOf(TRUE, <<0, 0, 0, LimbBase \div 2, 0>>)
    /\ result.params.shard = BigIntOf(FALSE, <<0, 0, 0, LimbBase \div 2, 0>>)

====
